---------------------------- MODULE Spec2Model ----------------------------
(***************************************************************************)
(* gitas: a command-line tool that switches between git identities.        *)
(*                                                                         *)
(* The model covers the interactive list view (src/commands/list.rs), the  *)
(* add-account flow (src/commands/add.rs), the secret store and config     *)
(* helpers (src/models.rs) and the git helpers (src/utils.rs).             *)
(*                                                                         *)
(* The program is single-threaded.  It blocks in exactly two kinds of      *)
(* places: event::read() inside the run loop or a widget, and the          *)
(* thread::sleep of the status banner.  Every action below is the code     *)
(* that runs between two such places.  A widget (raw_select, raw_confirm,  *)
(* raw_input, raw_password) is represented here by the value it returns;   *)
(* Option<T> is the empty tuple (None) or a one-element tuple (Some).      *)
(***************************************************************************)
EXTENDS Integers, Sequences, FiniteSets, TLC

VARIABLES
    \* ---- what outlives one run of the program
    persisted,            \* accounts.json: the saved Config.accounts
    store,                \* the keychain: key -> token, for service "gitas"
    gitcfg,               \* git configuration: scope -> (key -> value)
    inRepo,               \* the working directory is inside a git repository
    rawMode,              \* the terminal is in raw mode
    cursorVisible,        \* the terminal cursor is shown
    \* ---- the running process
    pc,                   \* where the process is blocked ("shell": not running)
    exit,                 \* how the last process ended: "none", "ok", "fatal"
    termLog,              \* raw-mode toggles of the current process, in order
    accounts,             \* Config.accounts in memory
    git,                  \* ListState.git, the GitIdentity snapshot
    cursor,               \* ListState.cursor
    last_rendered_lines,  \* ListState.last_rendered_lines
    key,                  \* the last key press the run loop read
    ret,                  \* what the last handle_* call returned
    refreshed,            \* the last dispatch called refresh_git
    rendered,             \* the last dispatch called render
    answer,               \* what the last prompt (widget call) returned
    switch,               \* locals of handle_switch while the banner is held
    edit,                 \* locals of handle_edit
    add,                  \* locals of the add flow
    \* ---- the screen, followed in the specifications of the renderer and
    \* ---- of the widgets (elsewhere the terminal is rawMode, cursorVisible
    \* ---- and last_rendered_lines)
    term,                 \* the terminal: cursor row and the text of each row
    draw,                 \* the running call of the frame renderer
    widget                \* the running widget: its locals

envVars  == <<persisted, store, gitcfg, inRepo>>
termVars == <<rawMode, cursorVisible, termLog>>
listVars == <<git, cursor, last_rendered_lines, key, ret, refreshed, rendered>>
vars == <<persisted, store, gitcfg, inRepo, rawMode, cursorVisible, pc, exit,
          termLog, accounts, git, cursor, last_rendered_lines, key, ret,
          refreshed, rendered, answer, switch, edit, add, term, draw, widget>>
screenVars == <<term, draw, widget>>

\* the longest account list `gitas add` is followed to
MaxAccounts == 2

\* the tallest frame the renderer is called with
MaxLines == 10

\* the longest select menu: the Edit menu has 7 items
MaxItems == 7

\* the longest buffer the text input is followed to
MaxInput == 2

----------------------------------------------------------------------------
(* Option<T> *)

None == <<>>
Some(v) == <<v>>
IsSome(o) == o # None
Unwrap(o) == o[1]

\* Option::unwrap_or
unwrap_or(o, d) == IF o = None THEN d ELSE o[1]

\* a bug: the last element is removed
RemoveAt_last(s, i) == SubSeq(s, 1, Len(s) - 1)

\* Vec::remove(i), i counted from 0
RemoveAt(s, i) == SubSeq(s, 1, i) \o SubSeq(s, i + 2, Len(s))

\* a bug: the first element is replaced
ReplaceAt_first(s, i, v) == [s EXCEPT ![1] = v]

\* vec[i] = v, i counted from 0
ReplaceAt(s, i, v) == [s EXCEPT ![i + 1] = v]

----------------------------------------------------------------------------
(* src/models.rs *)

Account(username, email, alias, host) ==
    [username |-> username, email |-> email, alias |-> alias, host |-> host]

make_key(username, alias) ==
    IF alias # None THEN username \o "::" \o alias[1] ELSE username

\* Entry::set_password
set_token(st, username, alias, token) ==
    LET k == make_key(username, alias)
    IN  [x \in (DOMAIN st) \cup {k} |-> IF x = k THEN token ELSE st[x]]

\* Entry::get_password; a missing entry is None
get_token(st, username, alias) ==
    LET k == make_key(username, alias)
    IN  IF k \in DOMAIN st THEN Some(st[k]) ELSE None

\* Entry::delete_credential; a missing entry is ignored
delete_token(st, username, alias) ==
    LET k == make_key(username, alias)
    IN  [x \in (DOMAIN st) \ {k} |-> st[x]]

----------------------------------------------------------------------------
(* src/utils.rs *)

Scopes == {"global", "local"}

\* `git config --local` fails outside a repository; --global succeeds
git_config_set_ok(scope) == scope = "global" \/ inRepo

\* the configuration after a successful `git config <scope> key value`
git_config_set(cfg, k, value, scope) ==
    [cfg EXCEPT ![scope] =
        [x \in (DOMAIN cfg[scope]) \cup {k} |->
            IF x = k THEN value ELSE cfg[scope][x]]]

\* `git config <scope> --unset key`; failure is ignored
git_config_unset(cfg, k, scope) ==
    IF scope = "local" /\ ~inRepo THEN cfg
    ELSE [cfg EXCEPT ![scope] = [x \in (DOMAIN cfg[scope]) \ {k} |-> cfg[scope][x]]]

\* `git config [scope] --get key`; "effective" is local over global.
\* An empty value is None.
git_config_get(cfg, k, scope) ==
    LET read(s) == IF (s = "local" => inRepo) /\ k \in DOMAIN cfg[s]
                                            /\ cfg[s][k] # ""
                   THEN Some(cfg[s][k]) ELSE None
    IN  IF scope \in Scopes THEN read(scope)
        ELSE IF read("local") # None THEN read("local") ELSE read("global")

git_toplevel == IF inRepo THEN Some("/repo") ELSE None

\* the values of credential.helper that contain "cache"
CacheHelpers == {"cache", "cache --timeout=3600"}

check_credential_helper(cfg) ==
    LET helper == git_config_get(cfg, "credential.helper", "effective")
    IN  IF helper = None
        THEN Some("  (!) No credential.helper set. Git may not store your tokens.")
        ELSE IF helper[1] \in CacheHelpers
        THEN Some("  (!) credential.helper is set to '" \o helper[1]
                    \o "'. Tokens may not persist.")
        ELSE None

\* the payload git credential approve is fed
git_credential_approve(username, token, host, url) ==
    [op |-> "approve", username |-> username, password |-> token,
     host |-> IF url = None THEN Some(host) ELSE None, url |-> url]

git_credential_reject(host) ==
    [op |-> "reject", username |-> "", password |-> "",
     host |-> Some(host), url |-> None]

----------------------------------------------------------------------------
(* src/commands/list.rs: GitIdentity and the frame *)

GitIdentity_fetch(cfg) ==
    [global_name  |-> git_config_get(cfg, "user.name", "global"),
     global_email |-> git_config_get(cfg, "user.email", "global"),
     global_alias |-> git_config_get(cfg, "gitas.alias", "global"),
     local_name   |-> git_config_get(cfg, "user.name", "local"),
     local_email  |-> git_config_get(cfg, "user.email", "local"),
     local_alias  |-> git_config_get(cfg, "gitas.alias", "local")]

NoIdentity ==
    [global_name |-> None, global_email |-> None, global_alias |-> None,
     local_name |-> None, local_email |-> None, local_alias |-> None]

\* a bug: an identity is known as soon as an account has its name
is_known_byName(accs, name, email) ==
    \E i \in 1..Len(accs) : accs[i].username = name

is_known(accs, name, email) ==
    \E i \in 1..Len(accs) : accs[i].username = name /\ accs[i].email = email

get_unmanaged_accounts(accs, g) ==
    LET fromGlobal ==
            IF g.global_name # None /\ g.global_email # None
               /\ ~is_known(accs, g.global_name[1], g.global_email[1])
            THEN <<<<g.global_name[1], g.global_email[1], "global">>>>
            ELSE <<>>
        is_already_listed ==
            \E i \in 1..Len(fromGlobal) :
                fromGlobal[i][1] = g.local_name[1] /\ fromGlobal[i][2] = g.local_email[1]
        fromLocal ==
            IF g.local_name # None /\ g.local_email # None
               /\ ~is_known(accs, g.local_name[1], g.local_email[1])
               /\ ~is_already_listed
            THEN <<<<g.local_name[1], g.local_email[1], "local">>>>
            ELSE <<>>
    IN  fromGlobal \o fromLocal

\* the lines build_frame returns, each by what it shows
build_frame(accs, unmanaged) ==
    <<"", "GITAS", "keys", "", "header", "separator">>
    \o (IF accs = <<>> /\ unmanaged = <<>>
        THEN <<"No accounts found.">>
        ELSE [i \in 1..(Len(accs) + Len(unmanaged)) |->
                 IF i <= Len(accs) THEN "account" ELSE "unmanaged"])
    \o <<"separator", "">>

\* the number of lines build_frame returns: four lines of title, the column
\* header, a separator, the rows (or the "No accounts found." line), a
\* separator and an empty line
FrameLines(accs, g) ==
    LET rows == Len(accs) + Len(get_unmanaged_accounts(accs, g))
    IN  6 + (IF rows = 0 THEN 1 ELSE rows) + 2

\* i64::rem_euclid for a positive modulus
rem_euclid(a, n) == ((a % n) + n) % n

\* a bug: the cursor moves although there is no row
move_cursor_noRows(cur, delta, accs, g) ==
    LET total_len == Len(accs) + Len(get_unmanaged_accounts(accs, g))
    IN  IF total_len = 0 THEN cur + delta ELSE rem_euclid(cur + delta, total_len)

\* a bug: the cursor stops at the first and at the last row
move_cursor_clamp(cur, delta, accs, g) ==
    LET total_len == Len(accs) + Len(get_unmanaged_accounts(accs, g))
    IN  IF total_len = 0 THEN 0
        ELSE IF cur + delta < 0 THEN 0
        ELSE IF cur + delta >= total_len THEN total_len - 1
        ELSE cur + delta

move_cursor(cur, delta, accs, g) ==
    LET total_len == Len(accs) + Len(get_unmanaged_accounts(accs, g))
    IN  IF total_len = 0 THEN 0 ELSE rem_euclid(cur + delta, total_len)

----------------------------------------------------------------------------
(* src/commands/list.rs: the run loop and its handlers *)

NoSwitch ==
    [scope |-> "", token |-> None, status_lines |-> <<>>, duration_ms |-> 0,
     cred |-> <<>>]

NoEdit ==
    [temp_account |-> Account("", "", None, None), original_username |-> "",
     original_alias |-> None, current_token |-> None, field |-> 0]

\* `cancelled`: a prompt of this flow returned None and the flow went on
NoAdd ==
    [username |-> "", email |-> "", alias |-> None, existing_idx |-> None,
     token |-> "", github |-> FALSE, cancelled |-> FALSE]

\* what raw_select can return for a menu of n items
SelectResults(n) == {None} \cup {Some(i) : i \in 0..(n - 1)}

\* what raw_confirm can return
ConfirmResults == {None, Some(TRUE), Some(FALSE)}

\* ListState::new and the head of run_loop, after main's load_config
StartList ==
    /\ pc = "shell"
    /\ UNCHANGED screenVars
    /\ answer' = None
    /\ accounts' = persisted
    /\ git' = GitIdentity_fetch(gitcfg)
    /\ cursor' = 0
    /\ rawMode' = TRUE
    /\ cursorVisible' = FALSE
    /\ termLog' = <<"enable">>
    /\ last_rendered_lines' = FrameLines(persisted, GitIdentity_fetch(gitcfg))
    /\ key' = ""
    /\ ret' = "none"
    /\ refreshed' = FALSE
    /\ rendered' = TRUE
    /\ pc' = "browsing"
    /\ exit' = "none"
    /\ add' = NoAdd
    /\ UNCHANGED <<envVars, switch, edit>>

\* Up | k | Down | j: move_cursor, render
KeyUpDown(k) ==
    /\ pc = "browsing"
    /\ UNCHANGED screenVars
    /\ answer' = None
    /\ k \in {"Up", "k", "Down", "j"}
    /\ cursor' = move_cursor(cursor, IF k \in {"Up", "k"} THEN -1 ELSE 1, accounts, git)
    /\ last_rendered_lines' = FrameLines(accounts, git)
    /\ key' = k
    /\ ret' = "none"
    /\ refreshed' = FALSE
    /\ rendered' = TRUE
    /\ UNCHANGED <<envVars, termVars, pc, exit, accounts, git, switch, edit, add>>

\* a bug: a handler that returns false ends the run loop
ReturnFalse_quit ==
    /\ pc' = "shell"
    /\ exit' = "ok"
    /\ ret' = "false"
    /\ refreshed' = FALSE
    /\ rendered' = FALSE
    /\ cursorVisible' = TRUE
    /\ rawMode' = FALSE
    /\ termLog' = Append(termLog, "disable")
    /\ UNCHANGED <<envVars, accounts, git, cursor, last_rendered_lines, switch,
                   edit, add>>

\* a handle_* call that returned false without opening a prompt, or whose
\* a bug: refresh_git is called although the handler returned false
ReturnFalse_refetch ==
    /\ pc' = "browsing"
    /\ ret' = "false"
    /\ refreshed' = TRUE
    /\ rendered' = TRUE
    /\ last_rendered_lines' = FrameLines(accounts, git)
    /\ UNCHANGED <<envVars, termVars, exit, accounts, git, cursor, switch, edit, add>>

\* prompt was cancelled: the run loop renders and reads the next key
ReturnFalse ==
    /\ pc' = "browsing"
    /\ ret' = "false"
    /\ refreshed' = FALSE
    /\ rendered' = TRUE
    /\ last_rendered_lines' = FrameLines(accounts, git)
    /\ UNCHANGED <<envVars, termVars, exit, accounts, git, cursor, switch, edit, add>>

\* a bug: the prompt opens with the cursor back on the first row
OpenPrompt_resetCursor(at) ==
    /\ pc' = at
    /\ ret' = "none"
    /\ refreshed' = FALSE
    /\ rendered' = FALSE
    /\ cursor' = 0
    /\ UNCHANGED <<envVars, termVars, exit, accounts, git,
                   last_rendered_lines, switch, add>>

\* the handler blocks in a prompt
OpenPrompt(at) ==
    /\ pc' = at
    /\ ret' = "none"
    /\ refreshed' = FALSE
    /\ rendered' = FALSE
    /\ UNCHANGED <<envVars, termVars, exit, accounts, git, cursor,
                   last_rendered_lines, switch, add>>

\* a bug: the guard for the unmanaged rows is missing
OnAccount_nonEmpty == accounts # <<>>

\* the guard at the top of handle_switch, handle_delete and handle_edit
OnAccount == accounts # <<>> /\ cursor < Len(accounts)

\* Enter: handle_switch up to its raw_select
KeyEnter ==
    /\ pc = "browsing"
    /\ UNCHANGED screenVars
    /\ answer' = None
    /\ key' = "Enter"
    /\ IF OnAccount
       THEN OpenPrompt("switchMenu") /\ UNCHANGED edit
       ELSE ReturnFalse

\* a bug: the credential username is always written for github.com
SwitchConfig_defaultHost(cfg, account, scope, token) ==
    LET c1 == git_config_set(cfg, "user.name", account.username, scope)
        c2 == git_config_set(c1, "user.email", account.email, scope)
        c3 == IF account.alias # None
              THEN git_config_set(c2, "gitas.alias", account.alias[1], scope)
              ELSE git_config_unset(c2, "gitas.alias", scope)
    IN  git_config_set(c3, "credential.https://github.com.username",
                       account.username, scope)

\* the git configuration handle_switch writes for `account` in `scope`
SwitchConfig(cfg, account, scope, token) ==
    LET c1 == git_config_set(cfg, "user.name", account.username, scope)
        c2 == git_config_set(c1, "user.email", account.email, scope)
        c3 == IF account.alias # None
              THEN git_config_set(c2, "gitas.alias", account.alias[1], scope)
              ELSE git_config_unset(c2, "gitas.alias", scope)
        host == unwrap_or(account.host, "github.com")
        cred_key == "credential.https://" \o host \o ".username"
        c4 == git_config_set(c3, cred_key, account.username, scope)
        url == IF scope = "local"
               THEN git_config_get(c4, "remote.origin.url", "local") ELSE None
    IN  IF token # None /\ token[1] # "" /\ scope = "local" /\ url # None
        THEN git_config_set(c4, "credential.useHttpPath", "true", "local")
        ELSE c4

\* a bug: the new credential is approved first and then rejected
SwitchCredentials_approveFirst(cfg, account, scope, token) ==
    LET host == unwrap_or(account.host, "github.com")
    IN  IF token # None /\ token[1] # ""
        THEN <<git_credential_approve(account.username, token[1], host, None),
               git_credential_reject(host)>>
        ELSE <<>>

\* the git credential calls handle_switch issues, in order
SwitchCredentials(cfg, account, scope, token) ==
    LET host == unwrap_or(account.host, "github.com")
        url == IF scope = "local"
               THEN git_config_get(cfg, "remote.origin.url", "local") ELSE None
    IN  IF token # None /\ token[1] # ""
        THEN <<git_credential_reject(host),
               git_credential_approve(account.username, token[1], host, url)>>
        ELSE <<>>

NoTokenLine(username) ==
    "  (!) No token found for " \o username \o ". Git may prompt for authentication."

SwitchedLine(username, scope) ==
    "(ok)   Switched to '" \o username \o "' (" \o scope \o ")"

\* a bug: the helper warning is pushed whether or not there is a token
SwitchStatus_alwaysWarns(cfg, account, scope, token) ==
    LET warning == check_credential_helper(cfg)
        first == (IF warning # None THEN <<warning[1]>> ELSE <<>>)
                 \o (IF token # None /\ token[1] # ""
                     THEN <<>> ELSE <<NoTokenLine(account.username)>>)
    IN  first \o <<"", SwitchedLine(account.username, scope)>>

\* status_lines as handle_switch accumulates them
SwitchStatus(cfg, account, scope, token) ==
    LET warning == check_credential_helper(cfg)
        first == IF token # None /\ token[1] # ""
                 THEN (IF warning # None THEN <<warning[1]>> ELSE <<>>)
                 ELSE <<NoTokenLine(account.username)>>
    IN  first \o <<"", SwitchedLine(account.username, scope)>>

BannerDuration(status_lines) == IF Len(status_lines) > 3 THEN 2500 ELSE 1500

\* a bug: every Some(_) applies, the Cancel item included
SwitchApplies_anyItem(sel) == sel # None

\* the arm `Some(0) | Some(1)` of handle_switch's match
SwitchApplies(sel) == sel \in {Some(0), Some(1)}

\* raw_select returned in handle_switch: apply to a scope, or cancel.
\* A failed git_config_set ends the process with std::process::exit(1).
SwitchSelected(sel) ==
    /\ pc = "switchMenu"
    /\ UNCHANGED screenVars
    /\ sel \in SelectResults(3)
    /\ answer' = sel
    /\ LET account == accounts[cursor + 1]
           scope == IF sel = Some(0) THEN "global" ELSE "local"
           token == get_token(store, account.username, account.alias)
           cfg == SwitchConfig(gitcfg, account, scope, token)
           lines == SwitchStatus(cfg, account, scope, token)
       IN  IF SwitchApplies(sel)
           THEN IF git_config_set_ok(scope)
                THEN /\ gitcfg' = cfg
                     /\ switch' = [scope |-> scope, token |-> token,
                                   status_lines |-> lines,
                                   duration_ms |-> BannerDuration(lines),
                                   cred |-> SwitchCredentials(cfg, account, scope, token)]
                     /\ pc' = "banner"
                     /\ UNCHANGED <<persisted, store, inRepo, termVars, exit,
                                    accounts, listVars, edit, add>>
                ELSE /\ pc' = "shell"
                     /\ exit' = "fatal"
                     /\ UNCHANGED <<envVars, termVars, accounts, listVars,
                                    switch, edit, add>>
           ELSE ReturnFalse /\ UNCHANGED key

\* raw_show_status returns: handle_switch returns true, the run loop
\* refreshes the snapshot and renders
StatusDone ==
    /\ pc = "banner"
    /\ UNCHANGED screenVars
    /\ switch' = NoSwitch
    /\ git' = GitIdentity_fetch(gitcfg)
    /\ last_rendered_lines' = FrameLines(accounts, GitIdentity_fetch(gitcfg))
    /\ ret' = "true"
    /\ refreshed' = TRUE
    /\ rendered' = TRUE
    /\ pc' = "browsing"
    /\ UNCHANGED <<envVars, termVars, exit, accounts, cursor, key, answer, edit, add>>

\* Backspace | Delete: handle_delete up to its raw_confirm
KeyRemove(k) ==
    /\ pc = "browsing"
    /\ UNCHANGED screenVars
    /\ answer' = None
    /\ k \in {"Backspace", "Delete"}
    /\ key' = k
    /\ IF OnAccount
       THEN OpenPrompt("deleteConfirm") /\ UNCHANGED edit
       ELSE ReturnFalse

\* a bug: the cursor is left where it was
ClampCursor_keep(cur, len) == cur

\* the cursor after handle_delete removed an account
ClampCursor(cur, len) == IF cur >= len /\ cur > 0 THEN cur - 1 ELSE cur

\* a bug: handle_delete returns without save_config
DeleteAnswered_noSave(r) ==
    /\ pc = "deleteConfirm"
    /\ UNCHANGED screenVars
    /\ r \in ConfirmResults
    /\ answer' = r
    /\ IF r = Some(TRUE)
       THEN LET account == accounts[cursor + 1]
                left == RemoveAt(accounts, cursor)
            IN  /\ store' = delete_token(store, account.username, account.alias)
                /\ accounts' = left
                /\ persisted' = persisted
                /\ cursor' = ClampCursor(cursor, Len(left))
                /\ git' = GitIdentity_fetch(gitcfg)
                /\ last_rendered_lines' = FrameLines(left, GitIdentity_fetch(gitcfg))
                /\ ret' = "true"
                /\ refreshed' = TRUE
                /\ rendered' = TRUE
                /\ pc' = "browsing"
                /\ UNCHANGED <<gitcfg, inRepo, termVars, exit, key, switch, edit, add>>
       ELSE ReturnFalse /\ UNCHANGED key

\* raw_confirm returned in handle_delete
DeleteAnswered(r) ==
    /\ pc = "deleteConfirm"
    /\ UNCHANGED screenVars
    /\ r \in ConfirmResults
    /\ answer' = r
    /\ IF r = Some(TRUE)
       THEN LET account == accounts[cursor + 1]
                left == RemoveAt(accounts, cursor)
            IN  /\ store' = delete_token(store, account.username, account.alias)
                /\ accounts' = left
                /\ persisted' = left
                /\ cursor' = ClampCursor(cursor, Len(left))
                /\ git' = GitIdentity_fetch(gitcfg)
                /\ last_rendered_lines' = FrameLines(left, GitIdentity_fetch(gitcfg))
                /\ ret' = "true"
                /\ refreshed' = TRUE
                /\ rendered' = TRUE
                /\ pc' = "browsing"
                /\ UNCHANGED <<gitcfg, inRepo, termVars, exit, key, switch, edit, add>>
       ELSE ReturnFalse /\ UNCHANGED key

\* e: handle_edit up to its first raw_select
KeyEdit ==
    /\ pc = "browsing"
    /\ UNCHANGED screenVars
    /\ answer' = None
    /\ key' = "e"
    /\ IF OnAccount
       THEN /\ OpenPrompt("editMenu")
            /\ edit' = [temp_account |-> accounts[cursor + 1],
                        original_username |-> accounts[cursor + 1].username,
                        original_alias |-> accounts[cursor + 1].alias,
                        current_token |-> get_token(store, accounts[cursor + 1].username,
                                                    accounts[cursor + 1].alias),
                        field |-> 0]
       ELSE ReturnFalse

\* the keychain after Save Changes
SaveTokens(st, e) ==
    LET t == e.temp_account
        s1 == IF e.original_username # t.username \/ e.original_alias # t.alias
              THEN delete_token(st, e.original_username, e.original_alias)
              ELSE st
    IN  IF e.current_token # None
        THEN set_token(s1, t.username, t.alias, e.current_token[1])
        ELSE delete_token(s1, t.username, t.alias)

\* raw_select returned in handle_edit's loop
EditSelected(sel) ==
    /\ pc = "editMenu"
    /\ UNCHANGED screenVars
    /\ sel \in SelectResults(7)
    /\ answer' = sel
    /\ IF sel \in {Some(0), Some(1), Some(2), Some(3), Some(4)}
       THEN /\ pc' = "editField"
            /\ edit' = [edit EXCEPT !.field = sel[1]]
            /\ UNCHANGED <<envVars, termVars, exit, accounts, listVars, switch, add>>
       ELSE IF sel = Some(5)
       THEN LET saved == ReplaceAt(accounts, cursor, edit.temp_account)
            IN  /\ store' = SaveTokens(store, edit)
                /\ accounts' = saved
                /\ persisted' = saved
                /\ edit' = NoEdit
                /\ git' = GitIdentity_fetch(gitcfg)
                /\ last_rendered_lines' = FrameLines(saved, GitIdentity_fetch(gitcfg))
                /\ ret' = "true"
                /\ refreshed' = TRUE
                /\ rendered' = TRUE
                /\ pc' = "browsing"
                /\ UNCHANGED <<gitcfg, inRepo, termVars, exit, cursor, key, switch, add>>
       ELSE /\ pc' = "browsing"
            /\ edit' = NoEdit
            /\ ret' = "false"
            /\ refreshed' = FALSE
            /\ rendered' = TRUE
            /\ last_rendered_lines' = FrameLines(accounts, git)
            /\ UNCHANGED <<envVars, termVars, exit, accounts, git, cursor, key,
                           switch, add>>

\* a bug: the host is stored as it was typed
EditField_rawHost(e, val) ==
    LET t == e.temp_account
    IN  IF val = None THEN e
        ELSE CASE e.field = 0 ->
                    IF val[1] # "" THEN [e EXCEPT !.temp_account.username = val[1]] ELSE e
               [] e.field = 1 ->
                    IF val[1] # "" THEN [e EXCEPT !.temp_account.email = val[1]] ELSE e
               [] e.field = 2 ->
                    [e EXCEPT !.temp_account.alias = IF val[1] = "" THEN None ELSE val]
               [] e.field = 3 ->
                    [e EXCEPT !.temp_account.host =
                        val]
               [] OTHER ->
                    [e EXCEPT !.current_token = IF val[1] = "" THEN None ELSE val]

\* a bug: an empty line is taken as the new username or email
EditField_emptyAccepted(e, val) ==
    IF val = None THEN e
    ELSE CASE e.field = 0 -> [e EXCEPT !.temp_account.username = val[1]]
           [] e.field = 1 -> [e EXCEPT !.temp_account.email = val[1]]
           [] e.field = 2 ->
                [e EXCEPT !.temp_account.alias = IF val[1] = "" THEN None ELSE val]
           [] e.field = 3 ->
                [e EXCEPT !.temp_account.host =
                    IF val[1] = "github.com" \/ val[1] = "" THEN None ELSE val]
           [] OTHER ->
                [e EXCEPT !.current_token = IF val[1] = "" THEN None ELSE val]

\* the draft after raw_input returned `val` for the field being edited
EditField(e, val) ==
    LET t == e.temp_account
    IN  IF val = None THEN e
        ELSE CASE e.field = 0 ->
                    IF val[1] # "" THEN [e EXCEPT !.temp_account.username = val[1]] ELSE e
               [] e.field = 1 ->
                    IF val[1] # "" THEN [e EXCEPT !.temp_account.email = val[1]] ELSE e
               [] e.field = 2 ->
                    [e EXCEPT !.temp_account.alias = IF val[1] = "" THEN None ELSE val]
               [] e.field = 3 ->
                    [e EXCEPT !.temp_account.host =
                        IF val[1] = "github.com" \/ val[1] = "" THEN None ELSE val]
               [] OTHER ->
                    [e EXCEPT !.current_token = IF val[1] = "" THEN None ELSE val]

\* a bug: the field is written to the account list and saved at once
EditEntered_writeThrough(val) ==
    /\ pc = "editField"
    /\ UNCHANGED screenVars
    /\ answer' = val
    /\ edit' = EditField(edit, val)
    /\ accounts' = ReplaceAt(accounts, cursor, EditField(edit, val).temp_account)
    /\ persisted' = ReplaceAt(accounts, cursor, EditField(edit, val).temp_account)
    /\ pc' = "editMenu"
    /\ UNCHANGED <<store, gitcfg, inRepo, termVars, exit, listVars, switch, add>>

\* raw_input returned in handle_edit: back to the menu
EditEntered(val) ==
    /\ pc = "editField"
    /\ UNCHANGED screenVars
    /\ answer' = val
    /\ edit' = EditField(edit, val)
    /\ pc' = "editMenu"
    /\ UNCHANGED <<envVars, termVars, exit, accounts, listVars, switch, add>>

\* q | Esc | Ctrl-C: leave the loop, exit_cleanup, return to main
KeyQuit(k) ==
    /\ pc = "browsing"
    /\ UNCHANGED screenVars
    /\ answer' = None
    /\ k \in {"q", "Esc", "CtrlC"}
    /\ key' = k
    /\ last_rendered_lines' = 0
    /\ cursorVisible' = TRUE
    /\ rawMode' = FALSE
    /\ termLog' = Append(termLog, "disable")
    /\ pc' = "shell"
    /\ exit' = "ok"
    /\ UNCHANGED <<envVars, accounts, git, cursor, ret, refreshed, rendered,
                   switch, edit, add>>

\* any other key press: ignored, no render
KeyOther(k) ==
    /\ pc = "browsing"
    /\ UNCHANGED screenVars
    /\ answer' = None
    /\ k \notin {"Up", "k", "Down", "j", "Enter", "Backspace", "Delete", "e",
                 "q", "Esc", "CtrlC"}
    /\ key' = k
    /\ ret' = "none"
    /\ refreshed' = FALSE
    /\ rendered' = FALSE
    /\ UNCHANGED <<envVars, termVars, pc, exit, accounts, git, cursor,
                   last_rendered_lines, switch, edit, add>>

----------------------------------------------------------------------------
(* src/tui.rs and src/commands/add.rs: `gitas add` *)

\* the key presses on which tui::raw_confirm returns
ConfirmKeys == {"y", "Y", "n", "N", "Enter", "Esc", "q", "CtrlC"}

\* a bug: Enter answers yes whatever the default is
tui_raw_confirm_enterIsYes(k, default) ==
    CASE k \in {"y", "Y", "Enter"} -> Some(TRUE)
      [] k \in {"n", "N"} -> Some(FALSE)
      [] OTHER -> None

\* what tui::raw_confirm returns on key press k, k \in ConfirmKeys
tui_raw_confirm(k, default) ==
    CASE k \in {"y", "Y"} -> Some(TRUE)
      [] k \in {"n", "N"} -> Some(FALSE)
      [] k = "Enter" -> Some(default)
      [] OTHER -> None

\* tui::enter_raw_mode
enter_raw_mode ==
    /\ rawMode' = TRUE
    /\ cursorVisible' = FALSE
    /\ termLog' = Append(termLog, "enable")

\* a bug: the cursor is shown, raw mode stays on
exit_raw_mode_staysRaw ==
    /\ cursorVisible' = TRUE
    /\ UNCHANGED <<rawMode, termLog>>

\* tui::exit_raw_mode
exit_raw_mode ==
    /\ cursorVisible' = TRUE
    /\ rawMode' = FALSE
    /\ termLog' = Append(termLog, "disable")

\* accounts.iter().position(|a| a.username == username && a.alias == alias)
position(accs, username, alias) ==
    LET hits == {i \in 1..Len(accs) :
                    accs[i].username = username /\ accs[i].alias = alias}
    IN  IF hits = {} THEN None
        ELSE Some((CHOOSE i \in hits : \A j \in hits : i <= j) - 1)

\* the account list upsert_account_raw leaves and saves
upsert_account_raw(accs, account, index) ==
    IF index # None THEN ReplaceAt(accs, index[1], account) ELSE Append(accs, account)

\* main and the head of add::run, up to the method menu
StartAdd ==
    /\ pc = "shell"
    /\ UNCHANGED screenVars
    /\ accounts' = persisted
    /\ rawMode' = TRUE
    /\ cursorVisible' = FALSE
    /\ termLog' = <<"enable">>
    /\ add' = NoAdd
    /\ git' = NoIdentity
    /\ cursor' = 0
    /\ last_rendered_lines' = 0
    /\ key' = ""
    /\ ret' = "none"
    /\ refreshed' = FALSE
    /\ rendered' = FALSE
    /\ answer' = None
    /\ pc' = "addMenu"
    /\ exit' = "none"
    /\ UNCHANGED <<envVars, switch, edit>>

\* add::run returns to main, which returns
AddReturns ==
    /\ pc' = "shell"
    /\ exit' = "ok"

\* raw_select returned in add::run
AddMethod(sel) ==
    /\ pc = "addMenu"
    /\ UNCHANGED screenVars
    /\ sel \in SelectResults(2)
    /\ answer' = sel
    /\ IF sel = Some(0)
       THEN /\ pc' = "addUsername"
            /\ UNCHANGED <<termVars, exit>>
       ELSE IF sel = Some(1)
       THEN /\ exit_raw_mode
            /\ pc' = "addLogin"
            /\ UNCHANGED exit
       ELSE exit_raw_mode /\ AddReturns
    /\ UNCHANGED <<envVars, accounts, listVars, switch, edit, add>>

\* raw_input("Username") returned in add_manual
AddUsername(val) ==
    /\ pc = "addUsername"
    /\ UNCHANGED screenVars
    /\ answer' = val
    /\ IF val # None /\ val[1] # ""
       THEN /\ add' = [add EXCEPT !.username = val[1]]
            /\ pc' = "addEmail"
            /\ UNCHANGED <<termVars, exit>>
       ELSE exit_raw_mode /\ AddReturns /\ UNCHANGED add
    /\ UNCHANGED <<envVars, accounts, listVars, switch, edit>>

\* raw_input("Email") returned in add_manual
AddEmail(val) ==
    /\ pc = "addEmail"
    /\ UNCHANGED screenVars
    /\ answer' = val
    /\ IF val # None /\ val[1] # ""
       THEN /\ add' = [add EXCEPT !.email = val[1]]
            /\ pc' = "addAlias"
            /\ UNCHANGED <<termVars, exit>>
       ELSE exit_raw_mode /\ AddReturns /\ UNCHANGED add
    /\ UNCHANGED <<envVars, accounts, listVars, switch, edit>>

\* github::login returned in add_github
AddLogin(res) ==
    /\ pc = "addLogin"
    /\ UNCHANGED screenVars
    /\ answer' = res
    /\ IF res # None
       THEN /\ add' = [add EXCEPT !.username = res[1][1], !.email = res[1][2],
                                  !.token = res[1][3], !.github = TRUE]
            /\ enter_raw_mode
            /\ pc' = "addAlias"
            /\ UNCHANGED exit
       ELSE AddReturns /\ UNCHANGED <<termVars, add>>
    /\ UNCHANGED <<envVars, accounts, listVars, switch, edit>>

\* the end of add_manual and of add_github: the token is written, the
\* account upserted and saved, and add::run returns
AddAccount(a, host) ==
    LET account == Account(a.username, a.email, a.alias, host)
        saved == upsert_account_raw(accounts, account, a.existing_idx)
    IN  /\ store' = IF a.github \/ a.token # ""
                    THEN set_token(store, a.username, a.alias, a.token)
                    ELSE delete_token(store, a.username, a.alias)
        /\ accounts' = saved
        /\ persisted' = saved
        /\ exit_raw_mode
        /\ AddReturns
        /\ UNCHANGED <<gitcfg, inRepo>>

\* raw_input("Alias (optional)") returned in add_manual or add_github: the
\* duplicate check follows
AddAlias(val) ==
    /\ pc = "addAlias"
    /\ UNCHANGED screenVars
    /\ answer' = val
    /\ LET alias == IF unwrap_or(val, "") = "" THEN None ELSE val
           existing_idx == position(accounts, add.username, alias)
           a == [add EXCEPT !.alias = alias, !.existing_idx = existing_idx,
                            !.cancelled = (val = None)]
       IN  /\ existing_idx # None \/ Len(accounts) < MaxAccounts
           /\ add' = a
           /\ IF existing_idx # None
              THEN /\ pc' = "addConfirm"
                   /\ UNCHANGED <<envVars, termVars, exit, accounts>>
              ELSE IF add.github
              THEN AddAccount(a, None)
              ELSE /\ pc' = "addToken"
                   /\ UNCHANGED <<envVars, termVars, exit, accounts>>
    /\ UNCHANGED <<listVars, switch, edit>>

\* a key press in the overwrite prompt of add_manual or add_github
AddConfirmKey(k) ==
    /\ pc = "addConfirm"
    /\ UNCHANGED screenVars
    /\ k \in ConfirmKeys
    /\ key' = k
    /\ answer' = tui_raw_confirm(k, FALSE)
    /\ IF tui_raw_confirm(k, FALSE) = Some(TRUE)
       THEN IF add.github
            THEN AddAccount(add, None)
            ELSE /\ pc' = "addToken"
                 /\ UNCHANGED <<envVars, termVars, exit, accounts>>
       ELSE /\ exit_raw_mode
            /\ AddReturns
            /\ UNCHANGED <<envVars, accounts>>
    /\ UNCHANGED <<git, cursor, last_rendered_lines, ret, refreshed, rendered,
                   switch, edit, add>>

\* raw_password("Token/PAT (optional)") returned in add_manual
AddToken(val) ==
    /\ pc = "addToken"
    /\ UNCHANGED screenVars
    /\ answer' = val
    /\ add' = [add EXCEPT !.token = unwrap_or(val, ""),
                          !.cancelled = add.cancelled \/ val = None]
    /\ pc' = "addHost"
    /\ UNCHANGED <<envVars, termVars, exit, accounts, listVars, switch, edit>>

\* raw_input("Host") returned in add_manual
AddHost(val) ==
    /\ pc = "addHost"
    /\ UNCHANGED screenVars
    /\ answer' = val
    /\ LET host_in == unwrap_or(val, "github.com")
       IN  AddAccount(add, IF host_in = "github.com" \/ host_in = ""
                           THEN None ELSE Some(host_in))
    /\ UNCHANGED <<listVars, switch, edit, add>>

----------------------------------------------------------------------------
(* The screen: what the commands queued on stdout do to the terminal, and   *)
(* the frame renderer (ListState::render, raw_render_lines)                 *)

\* a row without text
Blank == <<>>

\* the terminal after it was cleared: the cursor on the first row
BlankTerm == [row |-> 0, text |-> <<>>]

\* the commands the program queues
MoveUp(n) == [op |-> "MoveUp", n |-> n, line |-> Blank]
ClearCurrentLine == [op |-> "Clear", n |-> 0, line |-> Blank]
Put(line) == [op |-> "Print", n |-> 0, line |-> line]
NewLine == [op |-> "NewLine", n |-> 0, line |-> Blank]
ClearFromCursorDown == [op |-> "ClearDown", n |-> 0, line |-> Blank]

\* text without its trailing blank rows
Trim(text) ==
    LET used == {i \in 1..Len(text) : text[i] # Blank}
    IN  IF used = {} THEN <<>>
        ELSE SubSeq(text, 1, CHOOSE i \in used : \A j \in used : j <= i)

\* the text with `line` on row r (rows count from 0)
SetRow(text, r, line) ==
    Trim([i \in 1..(IF r + 1 > Len(text) THEN r + 1 ELSE Len(text)) |->
             IF i = r + 1 THEN line
             ELSE IF i <= Len(text) THEN text[i] ELSE Blank])

\* the terminal after one command; every printed line starts in the first
\* column, and the cursor does not move above the first row
Apply(t, o) ==
    CASE o.op = "MoveUp" ->
            [t EXCEPT !.row = IF t.row >= o.n THEN t.row - o.n ELSE 0]
      [] o.op = "Clear" -> [t EXCEPT !.text = SetRow(t.text, t.row, Blank)]
      [] o.op = "Print" -> [t EXCEPT !.text = SetRow(t.text, t.row, o.line)]
      [] o.op = "NewLine" -> [t EXCEPT !.row = t.row + 1]
      [] OTHER ->
            [t EXCEPT !.text = Trim(SubSeq(t.text, 1,
                                   IF t.row < Len(t.text) THEN t.row ELSE Len(t.text)))]

\* the terminal after a sequence of commands
ApplyAll(t, ops) ==
    LET after[k \in 0..Len(ops)] == IF k = 0 THEN t ELSE Apply(after[k - 1], ops[k])
    IN  after[Len(ops)]

\* for each line: Clear(CurrentLine), Print(line), Print("\r\n")
PrintLines(lines) ==
    [k \in 1..(3 * Len(lines)) |->
        CASE k % 3 = 1 -> ClearCurrentLine
          [] k % 3 = 2 -> Put(lines[(k + 1) \div 3])
          [] OTHER -> NewLine]

\* `count` times: Clear(CurrentLine), Print("\r\n")
ClearLines(count) ==
    [k \in 1..(2 * count) |-> IF k % 2 = 1 THEN ClearCurrentLine ELSE NewLine]

\* a bug: the cursor is left below the cleared surplus rows
raw_render_lines_noMoveBack(lines, prev_count) ==
    (IF prev_count > 0 THEN <<MoveUp(prev_count)>> ELSE <<>>)
    \o PrintLines(lines)
    \o (IF Len(lines) < prev_count
        THEN ClearLines(prev_count - Len(lines)) ELSE <<>>)

\* the commands raw_render_lines queues
raw_render_lines(lines, prev_count) ==
    (IF prev_count > 0 THEN <<MoveUp(prev_count)>> ELSE <<>>)
    \o PrintLines(lines)
    \o (IF Len(lines) < prev_count
        THEN ClearLines(prev_count - Len(lines))
             \o <<MoveUp(prev_count - Len(lines))>>
        ELSE <<>>)

\* the commands ListState::render queues: the same, then
\* Clear(FromCursorDown)
ListState_render(lines, prev_count) ==
    raw_render_lines(lines, prev_count) \o <<ClearFromCursorDown>>

\* a bug: the cursor is left below the cleared rows
raw_clear_lines_noMoveBack(count) ==
    IF count = 0 THEN <<>>
    ELSE <<MoveUp(count)>> \o ClearLines(count)

\* the commands raw_clear_lines queues
raw_clear_lines(count) ==
    IF count = 0 THEN <<>>
    ELSE <<MoveUp(count)>> \o ClearLines(count) \o <<MoveUp(count)>>

NoDraw ==
    [fn |-> "", lines |-> <<>>, prev |-> 0, top |-> 0, todo |-> <<>>, done |-> <<>>]

NoWidget ==
    [fn |-> "", items |-> 0, pos |-> 0, rendered |-> 0, top |-> 0, result |-> None]

\* what the renderer actions leave alone
loopVars == <<exit, accounts, git, cursor, key, ret, refreshed, rendered, answer,
              switch, edit, add>>

\* the lines of a frame: `tag` tells one frame from the next
Frame(tag, n) == [i \in 1..n |-> <<tag, i>>]

\* the renderer is called with a frame of n lines
RenderCall(fn, n) ==
    /\ pc = "drawn"
    /\ fn \in {"render", "raw_render_lines"}
    /\ n \in 0..MaxLines
    /\ LET tag == IF draw.lines # <<>> /\ draw.lines[1][1] = "a" THEN "b" ELSE "a"
           lines == Frame(tag, n)
       IN  draw' = [fn |-> fn, lines |-> lines, prev |-> last_rendered_lines,
                    top |-> term.row - last_rendered_lines,
                    todo |-> IF fn = "render"
                             THEN ListState_render(lines, last_rendered_lines)
                             ELSE raw_render_lines(lines, last_rendered_lines),
                    done |-> <<>>]
    /\ pc' = "drawing"
    /\ UNCHANGED <<envVars, termVars, loopVars, last_rendered_lines, term, widget>>

\* the next queued command reaches the terminal
RenderEmit ==
    /\ pc = "drawing"
    /\ draw.todo # <<>>
    /\ term' = Apply(term, Head(draw.todo))
    /\ draw' = [draw EXCEPT !.todo = Tail(draw.todo),
                            !.done = Append(draw.done, Head(draw.todo))]
    /\ UNCHANGED <<envVars, termVars, loopVars, pc, last_rendered_lines, widget>>

\* the renderer returns; the line count of the frame is stored
RenderReturn ==
    /\ pc = "drawing"
    /\ draw.todo = <<>>
    /\ last_rendered_lines' = Len(draw.lines)
    /\ pc' = "drawn"
    /\ UNCHANGED <<envVars, termVars, loopVars, term, draw, widget>>

----------------------------------------------------------------------------
(* The environment the program starts in *)

EmptyStore == [x \in {} |-> ""]
NoConfig == [x \in {} |-> ""]

\* a git scope configured with an identity
GitWith(name, email) ==
    [x \in {"user.name", "user.email"} |-> IF x = "user.name" THEN name ELSE email]

\* the process variables before anything ran
Fresh ==
    /\ rawMode = FALSE
    /\ cursorVisible = TRUE
    /\ termLog = <<>>
    /\ exit = "none"
    /\ accounts = <<>>
    /\ git = NoIdentity
    /\ cursor = 0
    /\ last_rendered_lines = 0
    /\ key = ""
    /\ ret = "none"
    /\ refreshed = FALSE
    /\ rendered = FALSE
    /\ answer = None
    /\ switch = NoSwitch
    /\ edit = NoEdit
    /\ add = NoAdd
    /\ term = BlankTerm
    /\ draw = NoDraw
    /\ widget = NoWidget

\* no process is running: the state main starts from
Shell == Fresh /\ pc = "shell"

\* key presses the user makes in the list view
Keys == {"Up", "k", "Down", "j", "Enter", "Backspace", "Delete", "e",
         "q", "Esc", "CtrlC", "x"}

\* Option<String> over a set of lines
Entered(lines) == {None} \cup {Some(v) : v \in lines}

----------------------------------------------------------------------------
(* Spec: the list view (`gitas` with no subcommand), every key.  One person *)
(* with two usernames; the user retypes usernames and tokens and leaves the *)
(* other fields as they are.                                                *)

bob == Account("bob", "dev@x.com", None, None)
rob == Account("rob", "dev@x.com", None, None)

\* what the user types into field f of the edit menu ("" is an empty line)
FieldInputs(f) ==
    CASE f = 0 -> {"", "bob", "rob"}
      [] f = 1 -> {"", "dev@x.com"}
      [] f = 2 -> {""}
      [] f = 3 -> {"", "github.com"}
      [] OTHER -> {"", "tok1"}

InitList ==
    /\ persisted \in {<<>>, <<bob>>, <<bob, rob>>}
    /\ store \in {EmptyStore, set_token(EmptyStore, "bob", None, "tok1")}
    /\ inRepo \in BOOLEAN
    /\ gitcfg \in {[global |-> g, local |-> l] :
                     g \in {NoConfig, GitWith("rob", "dev@x.com")},
                     l \in {NoConfig} \cup
                           (IF inRepo THEN {GitWith("eve", "eve@z.net")} ELSE {})}
    /\ Shell

NextList ==
    \/ StartList
    \/ \E k \in Keys : KeyUpDown(k)
    \/ KeyEnter
    \/ \E sel \in SelectResults(3) : SwitchSelected(sel)
    \/ StatusDone
    \/ \E k \in Keys : KeyRemove(k)
    \/ \E r \in ConfirmResults : DeleteAnswered(r)
    \/ KeyEdit
    \/ \E sel \in SelectResults(7) : EditSelected(sel)
    \/ \E val \in Entered(FieldInputs(edit.field)) : EditEntered(val)
    \/ \E k \in Keys : KeyQuit(k)
    \/ \E k \in Keys : KeyOther(k)

Spec == InitList /\ [][NextList]_vars

----------------------------------------------------------------------------
(* SpecSwitch: the list view over a fixed account list, the user moving the *)
(* cursor and switching.  One account has neither alias nor host, the other *)
(* has both; either may have a token in the keychain.                       *)

alice == Account("alice", "a@x.com", None, None)
carol == Account("carol", "c@corp.example", Some("work"), Some("git.corp.example"))

SwitchKeys == {"Up", "k", "Down", "j", "Enter", "q", "Esc", "CtrlC", "x"}

\* the keychains the switch flow starts with
SwitchStores ==
    {EmptyStore,
     set_token(EmptyStore, "alice", None, "tok1"),
     set_token(EmptyStore, "carol", Some("work"), "tok2")}

\* a scope that holds only the key k
OnlyKey(k, v) == [x \in {k} |-> v]

InitSwitch ==
    /\ persisted = <<alice, carol>>
    /\ store \in SwitchStores
    /\ inRepo \in BOOLEAN
    /\ gitcfg \in {[global |-> g, local |-> l] :
                     g \in {NoConfig, OnlyKey("credential.helper", "cache"),
                            OnlyKey("credential.helper", "store")},
                     l \in {NoConfig} \cup
                           (IF inRepo
                            THEN {OnlyKey("remote.origin.url",
                                          "https://git.corp.example/c/r.git")}
                            ELSE {})}
    /\ Shell

NextSwitch ==
    \/ StartList
    \/ \E k \in SwitchKeys : KeyUpDown(k)
    \/ KeyEnter
    \/ \E sel \in SelectResults(3) : SwitchSelected(sel)
    \/ StatusDone
    \/ \E k \in SwitchKeys : KeyQuit(k)
    \/ \E k \in SwitchKeys : KeyOther(k)

SpecSwitch == InitSwitch /\ [][NextSwitch]_vars

----------------------------------------------------------------------------
(* SpecAdd: `gitas add`, manual and through the browser login, alternating  *)
(* with list views in which the user renames and deletes accounts.          *)

AddSelectKeys == {"Up", "Down", "e", "Delete", "q"}

\* what github::login can return: failure, or bob's username, email, token
LoginResults == {None, Some(<<"bob", "new@x.com", "tok1">>)}

InitAdd ==
    /\ persisted \in {<<>>, <<bob>>}
    /\ store \in {EmptyStore} \cup
                 (IF persisted # <<>>
                  THEN {set_token(EmptyStore, "bob", None, "tok1")} ELSE {})
    /\ inRepo = FALSE
    /\ gitcfg = [global |-> NoConfig, local |-> NoConfig]
    /\ Shell

NextAdd ==
    \/ StartAdd
    \/ \E sel \in SelectResults(2) : AddMethod(sel)
    \/ \E val \in Entered({"", "bob", "rob"}) : AddUsername(val)
    \/ \E val \in Entered({"", "new@x.com"}) : AddEmail(val)
    \/ \E res \in LoginResults : AddLogin(res)
    \/ \E val \in Entered({"", "work"}) : AddAlias(val)
    \/ \E k \in ConfirmKeys : AddConfirmKey(k)
    \/ \E val \in Entered({"", "tok1"}) : AddToken(val)
    \/ \E val \in Entered({"", "github.com"}) : AddHost(val)
    \/ StartList
    \/ \E k \in AddSelectKeys : KeyUpDown(k)
    \/ \E k \in AddSelectKeys : KeyRemove(k)
    \/ \E r \in ConfirmResults : DeleteAnswered(r)
    \/ KeyEdit
    \/ \E sel \in {None, Some(0), Some(5)} : EditSelected(sel)
    \/ \E val \in Entered({"bob", "rob"}) : EditEntered(val)
    \/ \E k \in AddSelectKeys : KeyQuit(k)

SpecAdd == InitAdd /\ [][NextAdd]_vars

----------------------------------------------------------------------------
(* SpecKeys: the list view over one account, the user editing its username, *)
(* alias and token; a username may contain the "::" that make_key puts      *)
(* between a username and an alias.                                         *)

bob_work == Account("bob::work", "dev@x.com", None, None)

\* what the user types into field f of the edit menu
KeyInputs(f) ==
    CASE f = 0 -> {"bob", "rob", "bob::work"}
      [] f = 1 -> {"dev@x.com"}
      [] f = 2 -> {"", "work"}
      [] f = 3 -> {"github.com"}
      [] OTHER -> {"", "tok2"}

InitKeys ==
    /\ persisted \in {<<bob>>, <<bob_work>>}
    /\ store \in {EmptyStore,
                  set_token(EmptyStore, persisted[1].username, None, "tok1")}
    /\ inRepo = FALSE
    /\ gitcfg = [global |-> NoConfig, local |-> NoConfig]
    /\ Shell

NextKeys ==
    \/ StartList
    \/ KeyEdit
    \/ \E sel \in SelectResults(7) : EditSelected(sel)
    \/ \E val \in Entered(KeyInputs(edit.field)) : EditEntered(val)
    \/ \E k \in {"q"} : KeyQuit(k)

SpecKeys == InitKeys /\ [][NextKeys]_vars

----------------------------------------------------------------------------
(* SpecUnmanaged: the list view over account lists and git identities that  *)
(* match, half match or do not match, the user moving the cursor.           *)

acctA == Account("A", "a@x", None, None)
acctB == Account("B", "b@y", None, None)
\* the username of A with the email of B
acctAb == Account("A", "b@y", None, None)

\* what one scope of the git configuration can hold of an identity
IdentityConfigs ==
    {NoConfig, GitWith("A", "a@x"), GitWith("B", "b@y"),
     OnlyKey("user.name", "A"), OnlyKey("user.email", "a@x")}

InitUnmanaged ==
    /\ persisted \in {<<>>, <<acctA>>, <<acctAb>>, <<acctB, acctA>>}
    /\ store = EmptyStore
    /\ inRepo \in BOOLEAN
    /\ gitcfg \in {[global |-> g, local |-> l] :
                     g \in IdentityConfigs,
                     l \in IF inRepo THEN IdentityConfigs ELSE {NoConfig}}
    /\ Shell

NextUnmanaged ==
    \/ StartList
    \/ \E k \in {"Up", "k", "Down", "j"} : KeyUpDown(k)
    \/ \E k \in {"q", "Esc", "CtrlC"} : KeyQuit(k)
    \/ \E k \in {"x"} : KeyOther(k)

SpecUnmanaged == InitUnmanaged /\ [][NextUnmanaged]_vars

----------------------------------------------------------------------------
(* SpecRender: the frame renderer called again and again with frames of 0   *)
(* to MaxLines lines, each call after the frame the call before left.       *)

InitRender ==
    /\ persisted = <<>>
    /\ store = EmptyStore
    /\ inRepo = FALSE
    /\ gitcfg = [global |-> NoConfig, local |-> NoConfig]
    /\ Fresh
    /\ pc = "drawn"

NextRender ==
    \/ \E fn \in {"render", "raw_render_lines"}, n \in 0..MaxLines : RenderCall(fn, n)
    \/ RenderEmit
    \/ RenderReturn

SpecRender == InitRender /\ [][NextRender]_vars

----------------------------------------------------------------------------
(* SpecSelect: the select menu, key by key.  raw_select exists twice, in    *)
(* tui.rs (the method menu of `gitas add`, the account picker) and in       *)
(* list.rs (the Switch and Edit menus); a caller prints some lines and      *)
(* opens a menu of 1 to MaxItems items, again and again.                    *)

\* a bug: Up stops at the first item
pos_up_stop(pos, len) == IF pos = 0 THEN 0 ELSE pos - 1

\* Up | 'k'
pos_up(pos, len) == IF pos = 0 THEN len - 1 ELSE pos - 1

\* Down | 'j'
pos_down(pos, len) == (pos + 1) % len

\* the lines raw_select renders: the prompt, then the items, the one at
\* `pos` with the pointer
MenuLines(n, pos) ==
    <<<<"prompt", 0>>>> \o [i \in 1..n |-> <<IF i - 1 = pos THEN ">" ELSE " ", i - 1>>]

SelectFns == {"tui::raw_select", "list::raw_select"}

\* the keys that end raw_select with None
CancelKeys(fn) ==
    IF fn = "tui::raw_select" THEN {"Esc", "q", "CtrlC"} ELSE {"Esc", "CtrlC"}

\* key presses in a menu; "x" is any other key or event
SelectKeys == {"Up", "k", "Down", "j", "Enter", "Esc", "q", "CtrlC", "x"}

\* what the select actions leave alone
callerVars == <<envVars, termVars, exit, accounts, git, cursor, ret, refreshed,
                rendered, answer, switch, edit, add, last_rendered_lines, draw>>

\* the caller prints a line above the menu it will open
raw_println ==
    /\ pc = "caller"
    /\ term.row + MaxItems + 1 < MaxLines
    /\ term' = ApplyAll(term, <<Put(<<"msg", term.row>>), NewLine>>)
    /\ UNCHANGED <<callerVars, pc, key, widget>>

\* raw_select is called, renders the menu and waits for a key
SelectOpen(fn, n, default) ==
    /\ pc = "caller"
    /\ fn \in SelectFns
    /\ n \in 1..MaxItems
    /\ default \in 0..(n - 1)
    /\ widget' = [fn |-> fn, items |-> n, pos |-> default, rendered |-> n + 1,
                  top |-> term.row, result |-> None]
    /\ term' = ApplyAll(term, raw_render_lines(MenuLines(n, default), 0))
    /\ key' = ""
    /\ pc' = "select"
    /\ UNCHANGED callerVars

\* raw_clear_lines, then return
SelectReturn(r) ==
    /\ term' = ApplyAll(term, raw_clear_lines(widget.rendered))
    /\ widget' = [widget EXCEPT !.result = r]
    /\ pc' = "caller"

\* one turn of the loop of raw_select: a key, then either the return or the
\* next render
SelectKey(k) ==
    /\ pc = "select"
    /\ k \in SelectKeys
    /\ key' = k
    /\ IF k = "Enter" THEN SelectReturn(Some(widget.pos))
       ELSE IF k \in CancelKeys(widget.fn) THEN SelectReturn(None)
       ELSE LET p == CASE k \in {"Up", "k"} -> pos_up(widget.pos, widget.items)
                       [] k \in {"Down", "j"} -> pos_down(widget.pos, widget.items)
                       [] OTHER -> widget.pos
                lines == MenuLines(widget.items, p)
            IN  /\ term' = ApplyAll(term, raw_render_lines(lines, widget.rendered))
                /\ widget' = [widget EXCEPT !.pos = p, !.rendered = Len(lines)]
                /\ pc' = "select"
    /\ UNCHANGED callerVars

InitSelect ==
    /\ persisted = <<>>
    /\ store = EmptyStore
    /\ inRepo = FALSE
    /\ gitcfg = [global |-> NoConfig, local |-> NoConfig]
    /\ Fresh
    /\ pc = "caller"

NextSelect ==
    \/ raw_println
    \/ \E fn \in SelectFns, n \in 1..MaxItems, default \in 0..(MaxItems - 1) :
          SelectOpen(fn, n, default)
    \/ \E k \in SelectKeys : SelectKey(k)

SpecSelect == InitSelect /\ [][NextSelect]_vars

----------------------------------------------------------------------------
(* SpecWidgets: the confirm, text input and password widgets key by key,    *)
(* the select menu and the status banner, each opened in raw mode on the    *)
(* row below a frame its caller rendered.  A buffer is a sequence of        *)
(* characters; one character takes one byte, the other takes two.           *)

\* the key presses on which list.rs's raw_confirm returns
ListConfirmKeys == {"y", "Y", "n", "N", "Enter", "Esc", "CtrlC"}

\* a bug: Enter answers yes whatever the default is
list_raw_confirm_enterIsYes(k, default) ==
    CASE k \in {"y", "Y", "Enter"} -> Some(TRUE)
      [] k \in {"n", "N"} -> Some(FALSE)
      [] OTHER -> None

\* what list.rs's raw_confirm returns on key press k, k \in ListConfirmKeys
list_raw_confirm(k, default) ==
    CASE k \in {"y", "Y"} -> Some(TRUE)
      [] k \in {"n", "N"} -> Some(FALSE)
      [] k = "Enter" -> Some(default)
      [] OTHER -> None

\* key presses at a confirm prompt; "Tab" is any other key or event
PromptKeys == {"y", "Y", "n", "N", "Enter", "Esc", "q", "CtrlC", "Tab"}

\* the characters typed into an input
InputChars == {"a", "U+00E9"}

\* char::len_utf8
len_utf8(c) == IF c = "a" THEN 1 ELSE 2

\* String::len: the length in bytes
String_len(value) ==
    LET sum[k \in 0..Len(value)] ==
            IF k = 0 THEN 0 ELSE sum[k - 1] + len_utf8(value[k])
    IN  sum[Len(value)]

\* a bug: the first character is removed
String_pop_front(value) == IF value = <<>> THEN value ELSE Tail(value)

\* String::pop
String_pop(value) ==
    IF value = <<>> THEN value ELSE SubSeq(value, 1, Len(value) - 1)

\* the line an input shows: raw_input the buffer, raw_password one '*' for
\* each of value.len()
Display(fn, prompt, value) ==
    IF fn = "tui::raw_password"
    THEN <<"password", prompt, [i \in 1..String_len(value) |-> "*"]>>
    ELSE <<"input", prompt, value>>

InputFns == {"tui::raw_input", "list::raw_input", "tui::raw_password"}

\* the input handle_edit opens for the field the user selected
EditPrompt(e) ==
    LET t == e.temp_account
    IN  CASE e.field = 0 ->
                [fn |-> "list::raw_input", prompt |-> "New Username", default |-> t.username]
          [] e.field = 1 ->
                [fn |-> "list::raw_input", prompt |-> "New Email", default |-> t.email]
          [] e.field = 2 ->
                [fn |-> "list::raw_input", prompt |-> "New Alias",
                 default |-> unwrap_or(t.alias, "")]
          [] e.field = 3 ->
                [fn |-> "list::raw_input", prompt |-> "New Host",
                 default |-> unwrap_or(t.host, "github.com")]
          [] OTHER ->
                [fn |-> "list::raw_input", prompt |-> "New Token/PAT",
                 default |-> unwrap_or(e.current_token, "")]

\* key presses at an input; "Tab" is any other key or event
InputKeys == InputChars \cup {"Backspace", "CtrlU", "Enter", "Esc", "CtrlC", "Tab"}

\* the caller enables raw mode and hides the cursor
CallerStart ==
    /\ pc = "shell"
    /\ enter_raw_mode
    /\ pc' = "caller"
    /\ UNCHANGED <<envVars, exit, accounts, git, cursor, ret, refreshed, rendered,
                   answer, switch, edit, add, last_rendered_lines, key, screenVars>>

\* the caller renders a frame of n lines over the frame before
CallerRender(n) ==
    /\ pc = "caller"
    /\ n \in 1..MaxLines
    /\ term' = ApplyAll(term, ListState_render(Frame("frame", n), last_rendered_lines))
    /\ draw' = [draw EXCEPT !.lines = Frame("frame", n),
                            !.top = term.row - last_rendered_lines]
    /\ last_rendered_lines' = n
    /\ widget' = NoWidget
    /\ key' = ""
    /\ UNCHANGED <<envVars, termVars, exit, accounts, git, cursor, ret, refreshed,
                   rendered, answer, switch, edit, add, pc>>

\* what the widget actions leave alone
widgetVars == <<envVars, rawMode, termLog, exit, accounts, git, cursor, ret, refreshed,
                rendered, answer, switch, edit, add, last_rendered_lines, draw>>

\* raw_confirm is called, prints its line and waits for a key
ConfirmOpen(fn, default) ==
    /\ pc = "caller"
    /\ fn \in {"tui::raw_confirm", "list::raw_confirm"}
    /\ default \in BOOLEAN
    /\ widget' = [fn |-> fn, default |-> default, top |-> term.row, result |-> None]
    /\ term' = ApplyAll(term, <<Put(<<"confirm", default>>), NewLine>>)
    /\ key' = ""
    /\ pc' = "confirm"
    /\ UNCHANGED <<widgetVars, cursorVisible>>

\* one turn of the loop of raw_confirm
ConfirmKey(k) ==
    /\ pc = "confirm"
    /\ k \in PromptKeys
    /\ key' = k
    /\ IF k \in (IF widget.fn = "tui::raw_confirm" THEN ConfirmKeys ELSE ListConfirmKeys)
       THEN /\ term' = ApplyAll(term, raw_clear_lines(1))
            /\ widget' = [widget EXCEPT !.result =
                            IF widget.fn = "tui::raw_confirm"
                            THEN tui_raw_confirm(k, widget.default)
                            ELSE list_raw_confirm(k, widget.default)]
            /\ pc' = "caller"
       ELSE UNCHANGED <<term, widget, pc>>
    /\ UNCHANGED <<widgetVars, cursorVisible>>

\* raw_input or raw_password is called, shows the cursor and its line, and
\* waits for a key
InputOpen(fn, prompt, default) ==
    /\ pc = "caller"
    /\ fn \in InputFns
    /\ fn = "tui::raw_password" => default = <<>>
    /\ widget' = [fn |-> fn, prompt |-> prompt, value |-> default, top |-> term.row,
                  result |-> None]
    /\ cursorVisible' = TRUE
    /\ term' = ApplyAll(term, <<ClearCurrentLine, Put(Display(fn, prompt, default))>>)
    /\ key' = ""
    /\ pc' = "input"
    /\ UNCHANGED widgetVars

\* one turn of the loop of raw_input or raw_password
InputKey(k) ==
    /\ pc = "input"
    /\ k \in InputKeys
    /\ k \in InputChars => Len(widget.value) < MaxInput
    /\ key' = k
    /\ IF k \in {"Enter", "Esc", "CtrlC"}
       THEN /\ term' = Apply(term, ClearCurrentLine)
            /\ cursorVisible' = FALSE
            /\ widget' = [widget EXCEPT !.result =
                            IF k = "Enter" THEN Some(widget.value) ELSE None]
            /\ pc' = "caller"
       ELSE LET value == CASE k = "Backspace" -> String_pop(widget.value)
                           [] k = "CtrlU" -> <<>>
                           [] k \in InputChars -> Append(widget.value, k)
                           [] OTHER -> widget.value
            IN  /\ term' = ApplyAll(term, <<ClearCurrentLine,
                                            Put(Display(widget.fn, widget.prompt, value))>>)
                /\ widget' = [widget EXCEPT !.value = value]
                /\ UNCHANGED <<cursorVisible, pc>>
    /\ UNCHANGED widgetVars

\* raw_show_status: n lines are printed, held for a while and cleared
raw_show_status(n) ==
    /\ pc = "caller"
    /\ n \in 2..4
    /\ term' = ApplyAll(term, [k \in 1..(2 * n) |->
                                 IF k % 2 = 1 THEN Put(<<"status", (k + 1) \div 2>>)
                                 ELSE NewLine]
                              \o raw_clear_lines(n))
    /\ widget' = [fn |-> "list::raw_show_status", lines |-> n, top |-> term.row,
                  result |-> None]
    /\ key' = ""
    /\ UNCHANGED <<widgetVars, cursorVisible, pc>>

InitWidgets ==
    /\ persisted = <<>>
    /\ store = EmptyStore
    /\ inRepo = FALSE
    /\ gitcfg = [global |-> NoConfig, local |-> NoConfig]
    /\ Shell

NextWidgets ==
    \/ CallerStart
    \/ \E n \in {MaxLines - 1, MaxLines} : CallerRender(n)
    \/ \E n \in {3, 7} : SelectOpen("list::raw_select", n, 0)
    \/ \E k \in SelectKeys : SelectKey(k)
    \/ \E fn \in {"tui::raw_confirm", "list::raw_confirm"}, default \in BOOLEAN :
          ConfirmOpen(fn, default)
    \/ \E k \in PromptKeys : ConfirmKey(k)
    \/ \E fn \in InputFns, default \in {<<>>, <<"a">>} : InputOpen(fn, "Prompt", default)
    \/ \E k \in InputKeys : InputKey(k)
    \/ \E n \in 2..4 : raw_show_status(n)

SpecWidgets == InitWidgets /\ [][NextWidgets]_vars

----------------------------------------------------------------------------
(* SpecNorm: `gitas add` by hand and the Edit sub-flow of the list view,    *)
(* the user typing aliases and hosts: empty ones, the default host, others. *)

\* what the user types into field f of the edit menu
NormInputs(f) ==
    CASE f = 2 -> {"", "work"}
      [] f = 3 -> {"", "github.com", "git.corp.example"}
      [] OTHER -> {"bob"}

InitNorm ==
    /\ persisted \in {<<>>, <<carol>>}
    /\ store = EmptyStore
    /\ inRepo = FALSE
    /\ gitcfg = [global |-> NoConfig, local |-> NoConfig]
    /\ Shell

NextNorm ==
    \/ StartAdd
    \/ \E sel \in {None, Some(0)} : AddMethod(sel)
    \/ \E val \in Entered({"bob"}) : AddUsername(val)
    \/ \E val \in Entered({"new@x.com"}) : AddEmail(val)
    \/ \E val \in Entered({"", "work"}) : AddAlias(val)
    \/ \E k \in {"y", "Enter"} : AddConfirmKey(k)
    \/ \E val \in Entered({""}) : AddToken(val)
    \/ \E val \in Entered({"", "github.com", "git.corp.example"}) : AddHost(val)
    \/ StartList
    \/ \E k \in {"Down"} : KeyUpDown(k)
    \/ KeyEdit
    \/ \E sel \in {None, Some(2), Some(3), Some(5)} : EditSelected(sel)
    \/ \E val \in Entered(NormInputs(edit.field)) : EditEntered(val)
    \/ \E k \in {"q"} : KeyQuit(k)

SpecNorm == InitNorm /\ [][NextNorm]_vars

----------------------------------------------------------------------------
(* SpecDelete: the list view, the user moving the cursor and deleting; the  *)
(* confirm prompt of handle_delete key by key.                              *)

\* a key press on which raw_confirm returns in handle_delete, and the rest
\* of handle_delete
DeleteKey(k) ==
    /\ pc = "deleteConfirm"
    /\ UNCHANGED screenVars
    /\ k \in ListConfirmKeys
    /\ key' = k
    /\ answer' = list_raw_confirm(k, FALSE)
    /\ IF list_raw_confirm(k, FALSE) = Some(TRUE)
       THEN LET account == accounts[cursor + 1]
                left == RemoveAt(accounts, cursor)
            IN  /\ store' = delete_token(store, account.username, account.alias)
                /\ accounts' = left
                /\ persisted' = left
                /\ cursor' = ClampCursor(cursor, Len(left))
                /\ git' = GitIdentity_fetch(gitcfg)
                /\ last_rendered_lines' = FrameLines(left, GitIdentity_fetch(gitcfg))
                /\ ret' = "true"
                /\ refreshed' = TRUE
                /\ rendered' = TRUE
                /\ pc' = "browsing"
                /\ UNCHANGED <<gitcfg, inRepo, termVars, exit, switch, edit, add>>
       ELSE ReturnFalse

NextDelete ==
    \/ StartList
    \/ \E k \in {"Up", "Down"} : KeyUpDown(k)
    \/ \E k \in {"Backspace", "Delete"} : KeyRemove(k)
    \/ \E k \in ListConfirmKeys : DeleteKey(k)
    \/ \E k \in {"q"} : KeyQuit(k)

SpecDelete == InitList /\ [][NextDelete]_vars

----------------------------------------------------------------------------
(* Claims checked under Spec *)

Unmanaged == get_unmanaged_accounts(accounts, git)
Total == Len(accounts) + Len(Unmanaged)

\* C1: whenever the list view waits for a key, the cursor indexes a row of
\* the combined list (accounts, then unmanaged identities) if there is one,
\* and is 0 if there is none.
C1_CursorInRange ==
    pc = "browsing" =>
        IF Total > 0 THEN 0 <= cursor /\ cursor < Total ELSE cursor = 0

\* a confirmed delete of the last of two accounts moved the cursor back
C1_Witness ==
    /\ pc = "browsing"
    /\ key \in {"Backspace", "Delete"}
    /\ ret = "true"
    /\ Len(accounts) = 1
    /\ cursor = 0
    /\ persisted = <<bob>>
    /\ Total = 2

\* C2: when the process has ended after the list view enabled raw mode, the
\* cursor is shown and raw mode was disabled exactly once, whichever way the
\* process ended (q, Esc, Ctrl-C, or the exit of a failed git config write).
C2_CleanupOnEveryExit ==
    (pc = "shell" /\ exit # "none") =>
        /\ termLog = <<"enable", "disable">>
        /\ cursorVisible
        /\ ~rawMode

\* C5: inside the Edit sub-flow every step other than Save Changes leaves
\* Config.accounts, the saved config and the keychain as they were, and
\* Cancel or Esc in the edit menu returns false to the run loop.
C5_EditDraftOnly ==
    [][(pc \in {"editMenu", "editField"} /\ ~(pc = "editMenu" /\ answer' = Some(5)))
        => /\ accounts' = accounts
           /\ persisted' = persisted
           /\ store' = store
           /\ (pc = "editMenu" /\ answer' \in {None, Some(6)}
                 => pc' = "browsing" /\ ret' = "false")]_vars

\* the draft differs from the account in username and token, nothing written
C5_Witness ==
    /\ pc = "editMenu"
    /\ edit.temp_account.username # accounts[cursor + 1].username
    /\ edit.current_token # get_token(store, edit.original_username, edit.original_alias)
    /\ accounts = persisted

\* C8: Cancel or Esc in the switch menu returns false and has no effect: git
\* configuration is untouched, no credential call is issued, no banner is
\* shown and the GitIdentity snapshot is not fetched again.
C8_SwitchCancelNoEffect ==
    [][(pc = "switchMenu" /\ answer' \in {None, Some(2)})
        => /\ gitcfg' = gitcfg
           /\ switch' = NoSwitch
           /\ pc' = "browsing"
           /\ ret' = "false"
           /\ refreshed' = FALSE
           /\ git' = git]_vars

\* the Cancel item was chosen for an account and the list is shown again
C8_Witness ==
    /\ pc = "browsing"
    /\ key = "Enter"
    /\ answer = Some(2)
    /\ ret = "false"

----------------------------------------------------------------------------
(* Claims checked under SpecSwitch *)

Lines(seq) == {seq[i] : i \in 1..Len(seq)}

\* C6: while the banner of an applied switch is held: if the keychain holds
\* a non-empty token for the account, exactly two credential calls were
\* issued, the reject for the account's host first and the approve second;
\* otherwise none was issued and the no-token warning is among the status
\* lines.
C6_RejectThenApprove ==
    pc = "banner" =>
        LET a == accounts[cursor + 1]
            token == get_token(store, a.username, a.alias)
            host == unwrap_or(a.host, "github.com")
        IN  IF token # None /\ token[1] # ""
            THEN /\ Len(switch.cred) = 2
                 /\ switch.cred[1] = git_credential_reject(host)
                 /\ switch.cred[2].op = "approve"
                 /\ switch.cred[2].username = a.username
                 /\ switch.cred[2].password = token[1]
                 /\ NoTokenLine(a.username) \notin Lines(switch.status_lines)
            ELSE /\ switch.cred = <<>>
                 /\ NoTokenLine(a.username) \in Lines(switch.status_lines)

\* a switch to the account with a token, in the repository, is on the banner
C6_Witness ==
    /\ pc = "banner"
    /\ accounts[cursor + 1] = carol
    /\ get_token(store, "carol", Some("work")) = Some("tok2")
    /\ switch.scope = "local"
    /\ Len(switch.cred) = 2

\* the value of key k in one scope of the git configuration, as an Option
Value(scopeCfg, k) == IF k \in DOMAIN scopeCfg THEN Some(scopeCfg[k]) ELSE None

\* what C7 says the chosen scope holds after the switch, the other scope
\* being as before
SwitchWrote(a, s, before, after) ==
    LET host == unwrap_or(a.host, "github.com")
        other == IF s = "global" THEN "local" ELSE "global"
    IN  /\ Value(after[s], "user.name") = Some(a.username)
        /\ Value(after[s], "user.email") = Some(a.email)
        /\ Value(after[s], "gitas.alias") = a.alias
        /\ Value(after[s], "credential.https://" \o host \o ".username")
              = Some(a.username)
        /\ after[other] = before[other]

\* C7 as stated: choosing global or local writes user.name, user.email,
\* gitas.alias (or unsets it) and the credential username of the account's
\* host, in the chosen scope only.
C7_SwitchWrites_AsStated ==
    [][(pc = "switchMenu" /\ answer' \in {Some(0), Some(1)})
        => SwitchWrote(accounts[cursor + 1],
                       IF answer' = Some(0) THEN "global" ELSE "local",
                       gitcfg, gitcfg')]_vars

\* C7 amended: choosing global, or local inside a git repository, writes
\* them in the chosen scope only; choosing local outside a git repository
\* writes nothing and ends the process with a failure.
C7_SwitchWrites ==
    [][(pc = "switchMenu" /\ answer' \in {Some(0), Some(1)})
        => IF answer' = Some(0) \/ inRepo
           THEN /\ pc' = "banner"
                /\ SwitchWrote(accounts[cursor + 1],
                               IF answer' = Some(0) THEN "global" ELSE "local",
                               gitcfg, gitcfg')
           ELSE /\ gitcfg' = gitcfg
                /\ pc' = "shell"
                /\ exit' = "fatal"]_vars

\* the account with an alias and a host was switched to in the repository
C7_Witness ==
    /\ pc = "banner"
    /\ accounts[cursor + 1] = carol
    /\ switch.scope = "local"
    /\ Value(gitcfg["local"], "gitas.alias") = Some("work")
    /\ Value(gitcfg["local"], "credential.https://git.corp.example.username")
          = Some("carol")

----------------------------------------------------------------------------
(* Claims checked under SpecAdd *)

\* the positions of the accounts of accs that have this username and alias
Entries(accs, username, alias) ==
    {i \in 1..Len(accs) : accs[i].username = username /\ accs[i].alias = alias}

\* C3: when the Delete prompt is confirmed for the account (u, a) under the
\* cursor, afterwards the keychain has no entry under make_key(u, a) and no
\* account of the list has username u and alias a.
C3_DeleteRemovesAccountAndSecret ==
    [][(pc = "deleteConfirm" /\ answer' = Some(TRUE))
        => LET u == accounts[cursor + 1].username
               a == accounts[cursor + 1].alias
           IN  /\ get_token(store', u, a) = None
               /\ Entries(accounts', u, a) = {}
               /\ Entries(persisted', u, a) = {}]_vars

\* C9: when an add whose (username, alias) is that of an existing account
\* completes after yes was answered to the overwrite prompt, the list is as
\* long as before and has exactly one entry with that (username, alias), at
\* the position of the original, holding the entered email.
C9_OverwriteKeepsOneEntry ==
    [][(/\ pc \in {"addHost", "addConfirm"}
        /\ add.existing_idx # None
        /\ pc = "addConfirm" => add.github /\ answer' = Some(TRUE))
        => /\ Len(accounts') = Len(accounts)
           /\ Entries(accounts', add.username, add.alias)
                 = {add.existing_idx[1] + 1}
           /\ add.existing_idx[1] + 1 \in Entries(accounts, add.username, add.alias)
           /\ accounts'[add.existing_idx[1] + 1].email = add.email
           /\ persisted' = accounts']_vars

\* C10: when the overwrite prompt of an add is answered with n, N, Enter,
\* Esc or Ctrl-C, the flow ends with the account list, the saved list and
\* the keychain as they were.
C10_DeclineLeavesListUntouched ==
    [][(pc = "addConfirm" /\ key' \in {"n", "N", "Enter", "Esc", "CtrlC"})
        => /\ accounts' = accounts
           /\ persisted' = persisted
           /\ store' = store
           /\ pc' = "shell"]_vars

\* the overwrite prompt of a browser-login add was declined with Enter over
\* an account whose values differ from the ones logged in with
C10_Witness ==
    /\ pc = "shell"
    /\ exit = "ok"
    /\ key = "Enter"
    /\ answer = Some(FALSE)
    /\ add.github
    /\ add.existing_idx = Some(0)
    /\ accounts = <<bob>>
    /\ persisted = <<bob>>

----------------------------------------------------------------------------
(* Claims checked under SpecKeys *)

\* C4: when Save Changes is selected, afterwards the keychain holds the
\* draft token under make_key of the draft's username and alias, or nothing
\* under that key if the draft has no token; and if the username or the alias
\* was changed, it holds nothing under make_key of the original ones.
C4_SaveMovesSecret ==
    [][(pc = "editMenu" /\ answer' = Some(5))
        => LET t == edit.temp_account
           IN  /\ get_token(store', t.username, t.alias) = edit.current_token
               /\ (edit.original_username # t.username
                      \/ edit.original_alias # t.alias)
                  => get_token(store', edit.original_username,
                               edit.original_alias) = None]_vars

----------------------------------------------------------------------------
(* Claims checked under SpecUnmanaged *)

\* some account of the list has this username and this email
Managed(name, email) ==
    \E i \in 1..Len(accounts) :
        accounts[i].username = name /\ accounts[i].email = email

\* C11: in the list view the unmanaged list is: the global (name, email)
\* tagged "global" if both are set and no account has that username and
\* email; followed by the local (name, email) tagged "local" if both are
\* set, no account has them, and they are not those of a listed global
\* entry.
C11_UnmanagedList ==
    pc = "browsing" =>
        LET u == get_unmanaged_accounts(accounts, git)
            listGlobal == /\ git.global_name # None /\ git.global_email # None
                          /\ ~Managed(git.global_name[1], git.global_email[1])
            listLocal == /\ git.local_name # None /\ git.local_email # None
                         /\ ~Managed(git.local_name[1], git.local_email[1])
                         /\ ~(/\ listGlobal
                              /\ git.local_name = git.global_name
                              /\ git.local_email = git.global_email)
        IN  /\ Len(u) = (IF listGlobal THEN 1 ELSE 0) + (IF listLocal THEN 1 ELSE 0)
            /\ listGlobal =>
                  u[1] = <<git.global_name[1], git.global_email[1], "global">>
            /\ listLocal =>
                  u[Len(u)] = <<git.local_name[1], git.local_email[1], "local">>

\* global and local are the same identity, which no account has: it is
\* listed once, as global
C11_Witness ==
    /\ pc = "browsing"
    /\ git.global_name = Some("A") /\ git.global_email = Some("a@x")
    /\ git.local_name = Some("A") /\ git.local_email = Some("a@x")
    /\ accounts = <<acctAb>>
    /\ get_unmanaged_accounts(accounts, git) = <<<<"A", "a@x", "global">>>>

----------------------------------------------------------------------------
(* Claims checked under SpecRender *)

\* how many of the commands are `kind`
Count(ops, kind) == Cardinality({k \in 1..Len(ops) : ops[k].op = kind})

\* C12: when a render of an n-line frame after a p-line frame has returned,
\* the commands it queued are: a move up of p if p > 0; then, for each of
\* the n lines, a clear-line and the print of the line; then, if n < p,
\* p - n further clear-lines and a move up of p - n.  The n lines are on the
\* rows from where the previous frame began, the cursor is on the row below
\* them with nothing under it, and the stored line count is n.
C12_RenderCommands ==
    (pc = "drawn" /\ draw.fn # "") =>
        LET n == Len(draw.lines)
            p == draw.prev
            ops == draw.done
            u == IF p > 0 THEN 1 ELSE 0
        IN  /\ p > 0 => ops[1] = MoveUp(p)
            /\ \A i \in 1..n :
                  /\ ops[u + 3 * i - 2] = ClearCurrentLine
                  /\ ops[u + 3 * i - 1] = Put(draw.lines[i])
            /\ Count(ops, "Print") = n
            /\ Count(ops, "Clear") = n + (IF n < p THEN p - n ELSE 0)
            /\ Count(ops, "MoveUp") = u + (IF n < p THEN 1 ELSE 0)
            /\ n < p =>
                  /\ \A k \in (u + 3 * n + 1)..(u + 3 * n + 2 * (p - n)) :
                        ops[k].op \in {"Clear", "NewLine"}
                  /\ ops[u + 3 * n + 2 * (p - n) + 1] = MoveUp(p - n)
            /\ term.row = draw.top + n
            /\ \A i \in 1..n : term.text[draw.top + i] = draw.lines[i]
            /\ Len(term.text) <= draw.top + n
            /\ last_rendered_lines = n

\* a 3-line frame was rendered over a 10-line frame: 7 clear-lines for the
\* surplus rows and 3 overwritten lines
C12_Witness ==
    /\ pc = "drawn"
    /\ draw.prev = 10
    /\ Len(draw.lines) = 3
    /\ Count(draw.done, "Clear") - Count(draw.done, "Print") = 7
    /\ Count(draw.done, "Print") = 3
    /\ Len(term.text) = 3

----------------------------------------------------------------------------
(* The cursor keys, checked under SpecUnmanaged *)

\* C13: with total = accounts + unmanaged rows > 0, Up or k sets the cursor
\* to (cursor - 1) mod total and Down or j to (cursor + 1) mod total, so Up
\* from 0 gives total - 1 and Down from total - 1 gives 0; the frame is
\* rendered after each of these keys.
C13_CursorWraps ==
    [][(pc = "browsing" /\ Total > 0 /\ key' \in {"Up", "k", "Down", "j"})
        => /\ key' \in {"Up", "k"} => cursor' = (cursor - 1) % Total
           /\ key' \in {"Down", "j"} => cursor' = (cursor + 1) % Total
           /\ (key' \in {"Up", "k"} /\ cursor = 0) => cursor' = Total - 1
           /\ (key' \in {"Down", "j"} /\ cursor = Total - 1) => cursor' = 0
           /\ rendered'
           /\ last_rendered_lines' = FrameLines(accounts, git)
           /\ pc' = "browsing"]_vars

\* Up was pressed on the first of three rows, two of them unmanaged: the
\* cursor is on the last
C13_Witness ==
    /\ pc = "browsing"
    /\ key = "Up"
    /\ Len(accounts) = 1
    /\ Total = 3
    /\ cursor = 2
    /\ rendered

----------------------------------------------------------------------------
(* The empty list and the unmanaged rows, checked under Spec *)

\* C14: while the list view waits for a key with no account and no git
\* identity, the frame has the "No accounts found." row, there is no
\* unmanaged row and the cursor is 0; and Up, Down, Enter, Backspace, Delete
\* and e leave the cursor at 0, open no prompt and leave the account list,
\* the saved list, the keychain and the git configuration as they are.
C14_EmptyListNoOps ==
    [][(pc = "browsing" /\ accounts = <<>> /\ git = NoIdentity)
        => /\ "No accounts found." \in Lines(build_frame(accounts, Unmanaged))
           /\ Len(build_frame(accounts, Unmanaged)) = last_rendered_lines
           /\ Unmanaged = <<>>
           /\ cursor = 0
           /\ key' \in {"Up", "Down", "Enter", "Backspace", "Delete", "e"}
              => /\ cursor' = 0
                 /\ pc' = "browsing"
                 /\ accounts' = accounts
                 /\ persisted' = persisted
                 /\ store' = store
                 /\ gitcfg' = gitcfg
                 /\ git' = git]_vars

\* e was pressed on the empty list and the list view waits for the next key
C14_Witness ==
    /\ pc = "browsing"
    /\ accounts = <<>>
    /\ git = NoIdentity
    /\ key = "e"
    /\ ret = "false"
    /\ cursor = 0

\* C15: with the cursor on an unmanaged row (cursor >= the number of
\* accounts), Enter, Backspace, Delete and e open no prompt and leave the
\* account list, the saved list, the keychain, the git configuration and the
\* cursor as they are, and the GitIdentity snapshot is not fetched again.
C15_UnmanagedRowsViewOnly ==
    [][(/\ pc = "browsing"
        /\ cursor >= Len(accounts)
        /\ key' \in {"Enter", "Backspace", "Delete", "e"})
        => /\ pc' = "browsing"
           /\ accounts' = accounts
           /\ persisted' = persisted
           /\ store' = store
           /\ gitcfg' = gitcfg
           /\ cursor' = cursor
           /\ refreshed' = FALSE
           /\ git' = git
           /\ ret' = "false"]_vars

\* Enter was pressed on the unmanaged row below the one account
C15_Witness ==
    /\ pc = "browsing"
    /\ Len(accounts) = 1
    /\ Total = 2
    /\ cursor = 1
    /\ key = "Enter"
    /\ ret = "false"

\* the list view is inside a widget that one of its handlers opened
InListWidget == pc \in {"switchMenu", "deleteConfirm", "editMenu", "editField"}

\* a widget of the list view returns none: as raw_select, raw_confirm and
\* raw_input do on Esc and on Ctrl-C, and on no other key
CancelledWidget == InListWidget /\ answer' = None

\* C16 as stated: Esc or Ctrl-C inside a widget of the list view returns to
\* the edit menu or to the list, the process going on; and the process ends
\* only on q, Esc or Ctrl-C pressed while the list waits for a key.
C16_WidgetCancelIsLocal_AsStated ==
    [][/\ CancelledWidget
          => /\ pc' = (IF pc = "editField" THEN "editMenu" ELSE "browsing")
             /\ exit' = "none"
       /\ (exit = "none" /\ exit' # "none")
          => pc = "browsing" /\ key' \in {"q", "Esc", "CtrlC"}]_vars

\* C16 amended: Esc or Ctrl-C inside a widget of the list view returns to
\* the edit menu or to the list, the process going on; and the process ends
\* only on q, Esc or Ctrl-C pressed while the list waits for a key, or with
\* a failure when local is chosen in the Switch menu outside a repository.
C16_WidgetCancelIsLocal ==
    [][/\ CancelledWidget
          => /\ pc' = (IF pc = "editField" THEN "editMenu" ELSE "browsing")
             /\ exit' = "none"
       /\ (exit = "none" /\ exit' # "none")
          => \/ pc = "browsing" /\ key' \in {"q", "Esc", "CtrlC"} /\ exit' = "ok"
             \/ /\ pc = "switchMenu" /\ answer' = Some(1) /\ ~inRepo
                /\ exit' = "fatal"]_vars

\* the Remove prompt of an account was cancelled and the list view waits for
\* the next key
C16_Witness ==
    /\ pc = "browsing"
    /\ exit = "none"
    /\ accounts # <<>>
    /\ cursor < Len(accounts)
    /\ key = "Delete"
    /\ answer = None
    /\ ret = "false"
    /\ rawMode

----------------------------------------------------------------------------
(* More claims checked under SpecAdd *)

\* the add flow waits in one of these prompts
AddPrompts == {"addUsername", "addEmail", "addAlias", "addConfirm", "addToken",
               "addHost"}

\* C17: when an add flow ends in which a prompt (username, email, alias,
\* overwrite confirm, token, host) returned none on Esc or Ctrl-C, the
\* account list, the saved list and the keychain are as they were: the flow
\* changes them in its last step only.
C17_AddCancelNoAction ==
    [][(pc \in AddPrompts)
        => /\ pc' # "shell"
              => accounts' = accounts /\ persisted' = persisted /\ store' = store
           /\ (/\ pc' = "shell"
               /\ \/ add.cancelled
                  \/ pc # "addConfirm" /\ answer' = None
                  \/ pc = "addConfirm" /\ key' \in {"Esc", "CtrlC"})
              => accounts' = accounts /\ persisted' = persisted /\ store' = store]_vars

\* the add flow is running
InAddFlow == pc \in AddPrompts \cup {"addMenu", "addLogin"}

\* C18: whenever the list view is back in Browsing, and whenever an add flow
\* ends, the saved account list equals the account list in memory.
C18_SavedBeforeReturn ==
    [][/\ pc' = "browsing" => persisted' = accounts'
       /\ (InAddFlow /\ pc' = "shell") => persisted' = accounts']_vars

\* Browsing again after a confirmed delete: the account is gone from both
C18_Witness ==
    /\ pc = "browsing" /\ key \in {"Backspace", "Delete"} /\ answer = Some(TRUE)
    /\ ret = "true" /\ accounts = <<>> /\ persisted = <<>>

----------------------------------------------------------------------------
(* The select menu, checked under SpecSelect *)

\* row r of the terminal
RowAt(t, r) == IF r + 1 <= Len(t.text) THEN t.text[r + 1] ELSE Blank

\* the rows the menu was on are blank and the cursor is on the first of them
MenuCleared(t, w) ==
    /\ t.row = w.top
    /\ \A r \in w.top..(w.top + w.items) : RowAt(t, r) = Blank

\* C19: in every select menu, each of Esc, q and Ctrl-C cancels: the menu
\* returns none and its lines are cleared.
C19_SelectCancels ==
    [][(pc = "select" /\ key' \in {"Esc", "q", "CtrlC"})
        => /\ pc' = "caller"
           /\ widget'.result = None
           /\ MenuCleared(term', widget')]_vars

\* C20: in a select menu with at least one item and a default below the item
\* count, the highlighted position stays in 0..len-1 after every key; Up or k
\* on the first item goes to the last, Down or j on the last item goes to
\* the first, and Enter returns the highlighted index.
C20_SelectWraps ==
    [][/\ pc' = "select" => widget'.pos \in 0..(widget'.items - 1)
       /\ pc = "select"
          => /\ widget'.pos \in 0..(widget.items - 1)
             /\ (key' \in {"Up", "k"} /\ widget.pos = 0)
                => widget'.pos = widget.items - 1 /\ pc' = "select"
             /\ (key' \in {"Down", "j"} /\ widget.pos = widget.items - 1)
                => widget'.pos = 0 /\ pc' = "select"
             /\ key' = "Enter"
                => pc' = "caller" /\ widget'.result = Some(widget.pos)]_vars

\* Up on the first of several items: the last one is highlighted and shown
\* with the pointer
C20_Witness ==
    /\ pc = "select" /\ key = "Up" /\ widget.items = 3 /\ widget.pos = 2
    /\ RowAt(term, widget.top + 3) = <<">", 2>>
    /\ RowAt(term, widget.top + 1) = <<" ", 0>>

----------------------------------------------------------------------------
(* The confirm, input and password widgets, checked under SpecWidgets *)

\* terminals t1 and t2 show the same on every row but r
SameBut(t1, t2, r) ==
    \A i \in 0..(Len(t1.text) + Len(t2.text)) : i # r => RowAt(t1, i) = RowAt(t2, i)

\* C21: the confirm widget returns true on y or Y, false on n or N, the
\* default on Enter and none on Esc or Ctrl-C; every other key press leaves
\* the prompt open; one line is printed on entry and that one line is
\* cleared on exit.
C21_ConfirmKeys ==
    [][/\ (pc = "caller" /\ pc' = "confirm")
          => /\ term'.row = term.row + 1
             /\ RowAt(term', term.row) = <<"confirm", widget'.default>>
             /\ SameBut(term, term', term.row)
       /\ pc = "confirm"
          => /\ key' \in {"y", "Y"} => pc' = "caller" /\ widget'.result = Some(TRUE)
             /\ key' \in {"n", "N"} => pc' = "caller" /\ widget'.result = Some(FALSE)
             /\ key' = "Enter" => pc' = "caller" /\ widget'.result = Some(widget.default)
             /\ key' \in {"Esc", "CtrlC"} => pc' = "caller" /\ widget'.result = None
             /\ key' \notin {"y", "Y", "n", "N", "Enter", "Esc", "CtrlC"}
                => pc' = "confirm" /\ term' = term
             /\ pc' = "caller"
                => /\ term'.row = widget.top
                   /\ RowAt(term', widget.top) = Blank
                   /\ SameBut(term, term', widget.top)]_vars

C23_PasswordMask ==
    [][/\ (pc' = "input" /\ pc = "caller" /\ widget'.fn = "tui::raw_password")
          => widget'.value = <<>>
       /\ (pc' = "input" /\ widget'.fn = "tui::raw_password")
          => LET line == RowAt(term', term'.row)
             IN  /\ line = <<"password", "Prompt", [i \in 1..Len(widget'.value) |-> "*"]>>
                 /\ widget'.value # <<>> => line[3] # widget'.value
       /\ (pc = "input" /\ widget.fn = "tui::raw_password")
          => LET value == widget.value
                 n == Len(value)
             IN  /\ key' \in InputChars
                    => pc' = "input" /\ widget'.value = value \o <<key'>>
                 /\ key' = "Backspace"
                    => /\ pc' = "input"
                       /\ widget'.value = [i \in 1..(IF n = 0 THEN 0 ELSE n - 1) |-> value[i]]
                 /\ key' = "CtrlU" => pc' = "input" /\ widget'.value = <<>>
                 /\ key' = "Enter" => pc' = "caller" /\ widget'.result = Some(value)
                 /\ key' \in {"Esc", "CtrlC"} => pc' = "caller" /\ widget'.result = None]_vars

----------------------------------------------------------------------------
(* The Edit sub-flow, checked under Spec *)

\* C24: the input the Edit sub-flow opens for the Token row starts empty,
\* and the line it shows is the same whatever token is stored: it is the
\* line shown when another token, or none, is stored.
C24_TokenInputHidesToken ==
    (pc = "editField" /\ edit.field = 4)
    => /\ EditPrompt(edit).default = ""
       /\ \A tok \in {None, Some("tok1"), Some("tok2")} :
             LET p == EditPrompt(edit)
                 q == EditPrompt([edit EXCEPT !.current_token = tok])
             IN  Display(p.fn, p.prompt, p.default) = Display(q.fn, q.prompt, q.default)

\* C25 as stated: every render of the account list after the first uses a
\* GitIdentity snapshot that was fetched after the render before it: the
\* dispatch that renders has called refresh_git.
C25_SnapshotFetchedPerRender_AsStated ==
    [][(pc # "shell" /\ pc' = "browsing" /\ rendered') => refreshed']_vars

\* C25 amended: the snapshot is fetched when the list view starts and again
\* by exactly the dispatches whose handler returned true, before their
\* render; every other render (after a cursor move, after a handler that
\* returned false) uses the snapshot the render before it used.
C25_SnapshotFetchedPerRender ==
    [][/\ (pc = "shell" /\ pc' = "browsing")
          => rendered' /\ git' = GitIdentity_fetch(gitcfg')
       /\ (pc # "shell" /\ pc' = "browsing" /\ rendered')
          => /\ refreshed' <=> ret' = "true"
             /\ refreshed' => git' = GitIdentity_fetch(gitcfg')
             /\ ~refreshed' => git' = git]_vars

\* a render after a cursor move: no fetch since the render before
C25_Witness ==
    /\ pc = "browsing" /\ key = "Down" /\ cursor = 1 /\ rendered /\ ~refreshed
    /\ git = GitIdentity_fetch(gitcfg)

----------------------------------------------------------------------------
(* Stored accounts, checked under SpecNorm *)

\* account a stores neither the default host, nor an empty host, nor an
\* empty alias
Normal(a) == a.host \notin {Some("github.com"), Some("")} /\ a.alias # Some("")

\* C26: after any sequence of manual adds and edits, no account in memory or
\* in the saved config has host "github.com" or "", or alias "".
C26_DefaultsNotStored ==
    /\ \A i \in 1..Len(accounts) : Normal(accounts[i])
    /\ \A i \in 1..Len(persisted) : Normal(persisted[i])

\* Save Changes after "github.com" was typed over another host
C26_Witness ==
    /\ pc = "browsing" /\ ret = "true" /\ answer = Some(5)
    /\ persisted = <<[carol EXCEPT !.host = None]>>

----------------------------------------------------------------------------
(* The account list under add, edit and delete, checked under SpecAdd *)

\* C27: no two accounts of the list share (username, alias), after any
\* sequence of adds, edits and deletes from a list in which none do.
C27_UniqueKeys ==
    \A i, j \in 1..Len(accounts) :
        (accounts[i].username = accounts[j].username
         /\ accounts[i].alias = accounts[j].alias) => i = j

----------------------------------------------------------------------------
(* The Delete sub-flow key by key, checked under SpecDelete *)

\* C28: at the confirm prompt of the Delete sub-flow, Enter, n, N, Esc and
\* Ctrl-C each leave the account list, the saved config, the keychain and
\* the cursor as they are; y and Y remove the account at the cursor; the
\* sub-flow returns true exactly when an account was removed.
C28_DeleteOnlyOnYes ==
    [][pc = "deleteConfirm"
        => /\ key' \in {"Enter", "n", "N", "Esc", "CtrlC"}
              => /\ accounts' = accounts /\ persisted' = persisted
                 /\ store' = store /\ cursor' = cursor
                 /\ ret' = "false"
           /\ key' \in {"y", "Y"}
              => /\ accounts' = RemoveAt(accounts, cursor)
                 /\ persisted' = accounts'
                 /\ ret' = "true"
           /\ ret' = "true" <=> Len(accounts') = Len(accounts) - 1]_vars

\* Enter at the prompt: the default answer, nothing removed
C28_Witness ==
    /\ pc = "browsing" /\ key = "Enter" /\ answer = Some(FALSE) /\ ret = "false"
    /\ accounts = <<bob, rob>> /\ persisted = accounts /\ cursor = 1

----------------------------------------------------------------------------
(* Save Changes, checked under Spec *)

\* C29: Save Changes puts the draft at the cursor index of the account list
\* and saves the list: the length of the list, the cursor and the account at
\* every other index are unchanged.
C29_SaveReplacesInPlace ==
    [][(pc = "editMenu" /\ answer' = Some(5))
        => /\ Len(accounts') = Len(accounts)
           /\ cursor' = cursor
           /\ accounts'[cursor + 1] = edit.temp_account
           /\ \A i \in 1..Len(accounts) : i # cursor + 1 => accounts'[i] = accounts[i]
           /\ persisted' = accounts']_vars

\* the second of two accounts was renamed and saved
C29_Witness ==
    /\ pc = "browsing" /\ key = "e" /\ ret = "true" /\ cursor = 1
    /\ accounts = <<bob, bob>> /\ persisted = accounts

----------------------------------------------------------------------------
(* The widgets of the list view below the frame, checked under SpecWidgets *)

\* C30: when a widget of the list view (select menu, confirm, text input,
\* status banner) returns, by an answer or by a cancel, the cursor is on the
\* row it was on when the widget opened, the first row below the frame, and
\* the terminal shows the frame and nothing else; the next render moves up
\* by the stored line count onto the first line of the frame.
C30_WidgetsLeaveNoTrace ==
    [][/\ (/\ pc' = "caller"
           /\ widget'.fn \in {"list::raw_select", "list::raw_confirm",
                              "list::raw_input", "list::raw_show_status"}
           /\ pc # "caller" \/ widget'.fn = "list::raw_show_status")
          => /\ term'.row = widget'.top
             /\ term'.row = draw.top + last_rendered_lines
             /\ term'.text = draw.lines
       /\ (pc = "caller" /\ last_rendered_lines' # last_rendered_lines)
          => /\ Apply(term, MoveUp(last_rendered_lines)).row = draw.top
             /\ draw'.top = draw.top
             /\ term'.text = draw'.lines
             /\ term'.row = draw'.top + last_rendered_lines']_vars

\* the Edit menu was cancelled below a frame of MaxLines lines
C30_Witness ==
    /\ pc = "caller" /\ widget.fn = "list::raw_select" /\ widget.items = 7
    /\ key = "Esc" /\ last_rendered_lines = MaxLines /\ term.row = MaxLines
    /\ term.text = Frame("frame", MaxLines)

----------------------------------------------------------------------------
(* SpecEvents: the run loop of the list view and the widgets, each reading  *)
(* key events of every kind: presses, releases and repeats.                 *)

EventKinds == {"Release", "Repeat"}

\* the key codes of the events that are not presses
EventCodes == {"Up", "Down", "Enter", "Backspace", "e", "q", "Esc", "a", "y"}

\* a bug: a release of Down is taken as a press by the menu
KeyNotPress_moves(kind, k) ==
    /\ pc \in {"browsing", "select", "confirm", "input"}
    /\ kind \in EventKinds
    /\ k \in EventCodes
    /\ key' = kind
    /\ widget' = IF pc = "select" /\ k = "Down"
                 THEN [widget EXCEPT !.pos = pos_down(widget.pos, widget.items)]
                 ELSE widget
    /\ UNCHANGED <<envVars, termVars, pc, exit, accounts, git, cursor,
                   last_rendered_lines, ret, refreshed, rendered, answer, switch,
                   edit, add, term, draw>>

\* `if key.kind != KeyEventKind::Press { continue; }`: the run loop and
\* raw_confirm read the next event; raw_select and raw_input are back at the
\* top of their loop and render what they rendered before
KeyNotPress(kind, k) ==
    /\ pc \in {"browsing", "select", "confirm", "input"}
    /\ kind \in EventKinds
    /\ k \in EventCodes
    /\ key' = kind
    /\ term' = CASE pc = "select" ->
                      ApplyAll(term, raw_render_lines(
                          MenuLines(widget.items, widget.pos), widget.rendered))
                 [] pc = "input" ->
                      ApplyAll(term, <<ClearCurrentLine,
                          Put(Display(widget.fn, widget.prompt, widget.value))>>)
                 [] OTHER -> term
    /\ UNCHANGED <<envVars, termVars, pc, exit, accounts, git, cursor,
                   last_rendered_lines, ret, refreshed, rendered, answer, switch,
                   edit, add, draw, widget>>

InitEvents ==
    /\ persisted = <<alice, carol>>
    /\ store = EmptyStore
    /\ inRepo = FALSE
    /\ gitcfg = [global |-> NoConfig, local |-> NoConfig]
    /\ Shell

NextEvents ==
    \/ StartList
    \/ \E k \in {"Up", "k", "Down", "j"} : KeyUpDown(k)
    \/ \E k \in {"x", "Tab", "a", "F1"} : KeyOther(k)
    \/ \E k \in {"q", "Esc", "CtrlC"} : KeyQuit(k)
    \/ CallerStart
    \/ \E n \in {MaxLines} : CallerRender(n)
    \/ \E fn \in SelectFns : SelectOpen(fn, 3, 0)
    \/ \E k \in SelectKeys : SelectKey(k)
    \/ \E fn \in {"tui::raw_confirm", "list::raw_confirm"} : ConfirmOpen(fn, TRUE)
    \/ \E k \in PromptKeys : ConfirmKey(k)
    \/ \E fn \in InputFns : InputOpen(fn, "Prompt", <<>>)
    \/ \E k \in InputKeys : InputKey(k)
    \/ \E kind \in EventKinds, k \in EventCodes : KeyNotPress(kind, k)

SpecEvents == InitEvents /\ [][NextEvents]_vars

----------------------------------------------------------------------------
(* Events that are not key presses and keys without a binding, checked      *)
(* under SpecEvents                                                         *)

\* the keys the run loop of the list view has an arm for
BrowsingKeys ==
    {"Up", "k", "Down", "j", "Enter", "Backspace", "Delete", "e", "q", "Esc", "CtrlC"}

\* C31: an event that is not a key press changes nothing in the run loop and
\* nothing in a widget (cursor, highlighted position, text buffer, result,
\* screen), and in the list view a press of a key without a binding changes
\* nothing and renders nothing.
C31_IgnoredEventsChangeNothing ==
    [][/\ key' \in EventKinds =>
            /\ pc' = pc /\ cursor' = cursor /\ accounts' = accounts
            /\ git' = git /\ last_rendered_lines' = last_rendered_lines
            /\ widget' = widget /\ term' = term /\ draw' = draw
            /\ edit' = edit /\ switch' = switch /\ add' = add
            /\ UNCHANGED <<envVars, termVars, exit>>
       /\ (pc = "browsing" /\ key' \notin BrowsingKeys) =>
            /\ pc' = pc /\ cursor' = cursor /\ accounts' = accounts
            /\ git' = git /\ last_rendered_lines' = last_rendered_lines
            /\ term' = term /\ draw' = draw
            /\ key' \notin EventKinds => ~rendered'
            /\ UNCHANGED <<envVars, termVars, exit>>]_vars

\* the release of a key arrived at a menu whose highlight had moved
C31_Witness ==
    pc = "select" /\ key = "Release" /\ widget.pos = 1

----------------------------------------------------------------------------
(* Raw mode in `gitas add`, checked under SpecAdd *)

\* enter and exit calls take turns in log, an enter call first
Alternates(log) ==
    \A i \in 1..Len(log) : log[i] = IF i % 2 = 1 THEN "enable" ELSE "disable"

\* C32: in the add flow the calls of enter_raw_mode and exit_raw_mode take
\* turns, an enter call first; when the flow ends, on whatever path (method
\* menu cancelled, an early return of the manual add, login failed, overwrite
\* declined, account stored), raw mode is off and the cursor is shown; and
\* the browser login runs with raw mode off.
C32_RawModePaired ==
    [][(InAddFlow \/ pc' = "addMenu") =>
          /\ Alternates(termLog')
          /\ rawMode' <=> (Len(termLog') % 2 = 1)
          /\ pc' = "addLogin" => ~rawMode'
          /\ pc' = "shell" => (~rawMode' /\ cursorVisible')]_vars

\* the login succeeded, raw mode was entered a second time, the overwrite was
\* declined and the flow ended
C32_Witness ==
    /\ pc = "shell" /\ add.github /\ add.cancelled = FALSE
    /\ termLog = <<"enable", "disable", "enable", "disable">>
    /\ key = "n"

----------------------------------------------------------------------------
(* Save Changes and the keychain, checked under Spec *)

\* C33: Save Changes on the account under the cursor leaves the secret that
\* get_token finds for every other account of the list as it was, whatever
\* username and alias the draft has.
C33_SaveLeavesOtherSecrets ==
    [][(pc = "editMenu" /\ pc' = "browsing" /\ ret' = "true") =>
          \A i \in 1..Len(accounts) :
              i # cursor + 1 =>
                  get_token(store', accounts[i].username, accounts[i].alias)
                    = get_token(store, accounts[i].username, accounts[i].alias)]_vars

----------------------------------------------------------------------------
(* SpecKeychain: the Edit sub-flow of the list view in which the Token row  *)
(* is never opened, over a keychain whose read at the start of the edit     *)
(* finds an entry, finds none, or fails.                                    *)

\* e on an account: handle_edit up to its first raw_select, get_password
\* failing with an error other than NoEntry (an entry that is there and
\* cannot be read), which get_token reports and turns into None
KeyEditReadError ==
    /\ pc = "browsing"
    /\ UNCHANGED screenVars
    /\ answer' = None
    /\ key' = "e"
    /\ OnAccount
    /\ make_key(accounts[cursor + 1].username, accounts[cursor + 1].alias)
          \in DOMAIN store
    /\ OpenPrompt("editMenu")
    /\ edit' = [temp_account |-> accounts[cursor + 1],
                original_username |-> accounts[cursor + 1].username,
                original_alias |-> accounts[cursor + 1].alias,
                current_token |-> None,
                field |-> 0]

\* what the user types into field f of the edit menu
KeychainInputs(f) ==
    CASE f = 0 -> {"bob", "eve"}
      [] f = 2 -> {"", "work"}
      [] OTHER -> {"dev@x.com"}

InitKeychain ==
    /\ persisted \in {<<bob>>, <<bob, rob>>}
    /\ store \in {EmptyStore, set_token(EmptyStore, "bob", None, "tok1")}
    /\ inRepo = FALSE
    /\ gitcfg = [global |-> NoConfig, local |-> NoConfig]
    /\ Shell

NextKeychain ==
    \/ StartList
    \/ \E k \in {"Up", "Down"} : KeyUpDown(k)
    \/ KeyEdit
    \/ KeyEditReadError
    \/ \E sel \in {None, Some(0), Some(2), Some(5)} : EditSelected(sel)
    \/ \E val \in Entered(KeychainInputs(edit.field)) : EditEntered(val)
    \/ \E k \in {"q"} : KeyQuit(k)

SpecKeychain == InitKeychain /\ [][NextKeychain]_vars

\* C34: the Token row never opened, Save Changes leaves under the account's
\* key (the new one, when the username or the alias changed) the secret that
\* was stored for the account when the edit began, whether the read at the
\* start of the edit found an entry, found none or failed.
C34_SaveKeepsUntouchedToken ==
    [][(pc = "editMenu" /\ pc' = "browsing" /\ ret' = "true") =>
          get_token(store', edit.temp_account.username, edit.temp_account.alias)
            = get_token(store, edit.original_username, edit.original_alias)]_vars

----------------------------------------------------------------------------
(* The frame of the Switch sub-flow, checked under SpecSwitch *)

\* C35: the Switch sub-flow, from Enter on an account to the end of the
\* status banner and whatever item of the menu is chosen, leaves the account
\* list, the saved list, the cursor and the keychain as they are.
C35_SwitchFrame ==
    [][(pc \in {"switchMenu", "banner"} \/ pc' = "switchMenu") =>
          /\ accounts' = accounts
          /\ persisted' = persisted
          /\ cursor' = cursor
          /\ store' = store]_vars

\* the second account, which has a token in the keychain, was switched to
C35_Witness ==
    /\ pc = "banner" /\ cursor = 1 /\ switch.token # None
    /\ switch.scope = "global"

----------------------------------------------------------------------------
(* What a confirmed delete removes, checked under SpecDelete *)

----------------------------------------------------------------------------
(* The keys of the keychain, checked under SpecKeys *)

\* a username and an alias an account can have
Identity(username, alias) == username # "" /\ alias # Some("")

\* C37: make_key gives different keys to different identities: while an
\* account is edited, a draft whose username or alias differs from the
\* original ones has a key that differs from the original key.
C37_MakeKeyInjective ==
    pc \in {"editMenu", "editField"} =>
        LET t == edit.temp_account
        IN  (/\ Identity(t.username, t.alias)
             /\ Identity(edit.original_username, edit.original_alias)
             /\ <<t.username, t.alias>> # <<edit.original_username, edit.original_alias>>)
            => make_key(t.username, t.alias)
                 # make_key(edit.original_username, edit.original_alias)

----------------------------------------------------------------------------
(* SpecFields: `gitas add` by hand and list views in which the user edits   *)
(* usernames and emails and deletes accounts; any line the user enters may  *)
(* be empty.                                                                *)

\* what the user types into field f of the edit menu
RequiredInputs(f) ==
    CASE f = 0 -> {"", "eve"}
      [] OTHER -> {"", "eve@z.net"}

InitFields ==
    /\ persisted \in {<<>>, <<bob>>}
    /\ store = EmptyStore
    /\ inRepo = FALSE
    /\ gitcfg = [global |-> NoConfig, local |-> NoConfig]
    /\ Shell

NextFields ==
    \/ StartAdd
    \/ \E sel \in {None, Some(0)} : AddMethod(sel)
    \/ \E val \in Entered({"", "rob"}) : AddUsername(val)
    \/ \E val \in Entered({"", "new@x.com"}) : AddEmail(val)
    \/ \E val \in Entered({""}) : AddAlias(val)
    \/ \E k \in {"y", "n"} : AddConfirmKey(k)
    \/ \E val \in Entered({""}) : AddToken(val)
    \/ \E val \in Entered({""}) : AddHost(val)
    \/ StartList
    \/ \E k \in {"Down"} : KeyUpDown(k)
    \/ \E k \in {"Delete"} : KeyRemove(k)
    \/ \E r \in ConfirmResults : DeleteAnswered(r)
    \/ KeyEdit
    \/ \E sel \in {None, Some(0), Some(1), Some(5)} : EditSelected(sel)
    \/ \E val \in Entered(RequiredInputs(edit.field)) : EditEntered(val)
    \/ \E k \in {"q"} : KeyQuit(k)

SpecFields == InitFields /\ [][NextFields]_vars

\* C38: after manual adds, edits and deletes in any order, from a saved list
\* whose accounts have a username and an email, every account of the list,
\* in memory and saved, has a non-empty username and a non-empty email.
C38_RequiredFieldsNonEmpty ==
    /\ \A i \in 1..Len(accounts) :
          accounts[i].username # "" /\ accounts[i].email # ""
    /\ \A i \in 1..Len(persisted) :
          persisted[i].username # "" /\ persisted[i].email # ""

\* an empty line was entered for the username of an account that was added
\* by hand, and the draft kept the username
C38_Witness ==
    /\ pc = "editMenu" /\ edit.field = 0 /\ answer = Some("")
    /\ edit.temp_account.username = "rob" /\ Len(accounts) = 2

----------------------------------------------------------------------------
(* The two copies of the select menu and of the confirm prompt, checked     *)
(* under SpecEvents                                                         *)

\* the copy of widget fn in the other file
OtherCopy(fn) ==
    CASE fn = "tui::raw_select" -> "list::raw_select"
      [] fn = "list::raw_select" -> "tui::raw_select"
      [] fn = "tui::raw_confirm" -> "list::raw_confirm"
      [] OTHER -> "tui::raw_confirm"

\* C39: the copies of raw_select and of raw_confirm in tui.rs and in list.rs
\* do the same: called with the same arguments and fed the same events, one
\* returns at the event at which the other returns, with the same result.
C39_CopiesEquivalent ==
    [][/\ pc = "select" =>
            /\ pc' = "caller" <=>
                  (key' = "Enter" \/ key' \in CancelKeys(OtherCopy(widget.fn)))
            /\ pc' = "caller" =>
                  widget'.result = IF key' = "Enter" THEN Some(widget.pos) ELSE None
       /\ pc = "confirm" =>
            /\ pc' = "caller" <=>
                  key' \in (IF OtherCopy(widget.fn) = "tui::raw_confirm"
                            THEN ConfirmKeys ELSE ListConfirmKeys)
            /\ pc' = "caller" =>
                  widget'.result = IF OtherCopy(widget.fn) = "tui::raw_confirm"
                                   THEN tui_raw_confirm(key', widget.default)
                                   ELSE list_raw_confirm(key', widget.default)]_vars

----------------------------------------------------------------------------
(* The status banner of a switch, checked under SpecSwitch *)

\* C40: a switch that applies a scope accumulates 2 or 3 status lines (a
\* helper warning or the no-token line, or neither; the blank line; the
\* "Switched to" line), never more than 3, so the banner is held for 1500 ms.
C40_BannerNeverLong ==
    pc = "banner" =>
        /\ Len(switch.status_lines) \in 2..3
        /\ switch.duration_ms = 1500
        /\ switch.status_lines[Len(switch.status_lines) - 1] = ""

\* a token was found and the credential helper is a cache: the warning, the
\* blank line and the "Switched to" line
C40_Witness ==
    /\ pc = "banner" /\ switch.token # None /\ Len(switch.status_lines) = 3
    /\ switch.duration_ms = 1500

=============================================================================
